---- MODULE Spec2Model ----
(***************************************************************************)
(* The access-scoped ordered-entity layer of ai-kanban: the service        *)
(* classes BoardService, ListService, CardService and CommentService,      *)
(* with OrganizationService, AuthService.register and the role middleware, *)
(* over the tables of db/schema.ts.  Every service call is one action (the *)
(* whole method, its access query, its writes and its return value); the   *)
(* specifications whose name ends in Conc run the same statements one      *)
(* database statement at a time, interleaved between requests.             *)
(***************************************************************************)
EXTENDS Integers, Sequences, FiniteSets, TLC

VARIABLES
    users,              \* table users: id -> row
    userOrganizations,  \* table user_organizations: a set of rows
    organizations,      \* table organizations: id -> row
    boards,             \* table boards: id -> row
    lists,              \* table lists: id -> row
    cards,              \* table cards: id -> row
    cardComments,       \* table card_comments: id -> row
    nextId,             \* the primary keys handed out so far, per table
    last,               \* the service call that returned last: request and response
    reqs,               \* requests in flight (statement-level specifications only)
    AGENT_USER_ID       \* the module variable of agent.tools.ts

tables == <<users, userOrganizations, organizations, boards, lists, cards, cardComments>>
vars == <<users, userOrganizations, organizations, boards, lists, cards, cardComments, nextId, last, reqs,
          AGENT_USER_ID>>

(***************************************************************************)
(* Bounds of the model.                                                    *)
(***************************************************************************)
MaxBoards == 2
MaxExtraLists == 1
MaxCards == 3
MaxComments == 2
MaxPosition == 5
MaxRequests == 3

Users == {"u1", "u2", "u3"}
Orgs == {"o1", "o2"}
NULL == "null"
UNDEFINED == <<>>
\* What a method returns is a sequence of rows: a row or null is <<row>> or NoRow,
\* void is NoRow.
NoRow == <<>>

\* A position argument is optional: UNDEFINED, or <<p>>.
PositionArgs == {UNDEFINED, <<MaxPosition>>}
ListNames == {"Backlog"}

(***************************************************************************)
(* The membership table.  No service method inserts a row with a role      *)
(* other than owner, so the rows of the other roles of the schema's enum   *)
(* are given: u1 owns o1, u3 owns o2, u2 is a member of o1 and an admin of *)
(* o2.  u1 has no row on o2 and u3 has none on o1.                         *)
(***************************************************************************)
SeedMemberships ==
    { [userId |-> "u1", organizationId |-> "o1", role |-> "owner"],
      [userId |-> "u2", organizationId |-> "o1", role |-> "member"],
      [userId |-> "u2", organizationId |-> "o2", role |-> "admin"],
      [userId |-> "u3", organizationId |-> "o2", role |-> "owner"] }

SeedOrganizations ==
    [o \in Orgs |-> [name |-> IF o = "o1" THEN "Acme" ELSE "Globex",
                     slug |-> IF o = "o1" THEN "acme" ELSE "globex",
                     createdBy |-> IF o = "o1" THEN "u1" ELSE "u3"]]

\* The users of the seeded memberships, registered before.
SeedUsers == [u \in Users |-> [email |-> u \o "@x.io", name |-> "User " \o u]]

\* The keys of the users and organizations created next: u4, o3.
SeedIds == [user |-> Cardinality(Users) + 1, organization |-> Cardinality(Orgs) + 1]

NoCall == [op |-> "none", actor |-> "none", targets |-> {}, args |-> <<>>,
           outcome |-> "none", data |-> NoRow]

\* The response of a call: what it was, what it returned or threw.
Response(op, actor, targets, args, outcome, data) ==
    [op |-> op, actor |-> actor, targets |-> targets, args |-> args,
     outcome |-> outcome, data |-> data]

\* One call at a time: a call starts when the response of the one before it
\* has been delivered.
Idle == last = NoCall

Return ==
    /\ last # NoCall
    /\ last' = NoCall
    /\ UNCHANGED <<tables, nextId, reqs, AGENT_USER_ID>>

(***************************************************************************)
(* The access queries: the joins every method runs before it reads or      *)
(* writes.                                                                 *)
(***************************************************************************)
\* select from user_organizations where organizationId = o and userId = u
IsMember(u, o) ==
    \E m \in userOrganizations : m.userId = u /\ m.organizationId = o

\* boards join user_organizations where boards.id = b and userId = u
BoardAccess(b, u) ==
    /\ b \in DOMAIN boards
    /\ IsMember(u, boards[b].organizationId)

\* lists join boards join user_organizations where lists.id = l and userId = u
ListAccess(l, u) ==
    /\ l \in DOMAIN lists
    /\ BoardAccess(lists[l].boardId, u)

\* Mutant of CardAccess: the query has lost its joins.
CardAccessCardOnly(c, u) == c \in DOMAIN cards

\* cards join lists join boards join user_organizations where cards.id = c
CardAccess(c, u) ==
    /\ c \in DOMAIN cards
    /\ ListAccess(cards[c].listId, u)

\* card_comments join cards join lists join boards join user_organizations
CommentAccess(k, u) ==
    /\ k \in DOMAIN cardComments
    /\ CardAccess(cardComments[k].cardId, u)

(***************************************************************************)
(* The organization that owns a resource, along the foreign keys of the    *)
(* schema; "none" where the chain is broken.                               *)
(***************************************************************************)
OrgOfBoard(b) == IF b \in DOMAIN boards THEN boards[b].organizationId ELSE "none"
OrgOfList(l) == IF l \in DOMAIN lists THEN OrgOfBoard(lists[l].boardId) ELSE "none"
OrgOfCard(c) == IF c \in DOMAIN cards THEN OrgOfList(cards[c].listId) ELSE "none"
OrgOfComment(k) == IF k \in DOMAIN cardComments THEN OrgOfCard(cardComments[k].cardId) ELSE "none"

OwnerOrg(t) ==
    CASE t[1] = "organization" -> t[2]
      [] t[1] = "board" -> OrgOfBoard(t[2])
      [] t[1] = "list" -> OrgOfList(t[2])
      [] t[1] = "card" -> OrgOfCard(t[2])
      [] t[1] = "comment" -> OrgOfComment(t[2])

(***************************************************************************)
(* ORDER BY position ASC: every sequence of the rows `ids` in              *)
(* non-decreasing order of pos[id].  Rows of equal position come in an order   *)
(* the store chooses.                                                      *)
(***************************************************************************)
RECURSIVE OrderedBy(_, _)
OrderedBy(ids, pos) ==
    IF ids = {}
      THEN {<<>>}
      ELSE UNION { {<<m>> \o s : s \in OrderedBy(ids \ {m}, pos)} :
                   m \in {x \in ids : \A y \in ids : pos[x] <= pos[y]} }

\* A select without ORDER BY: the rows in any order.
RECURSIVE AnyOrder(_)
AnyOrder(ids) ==
    IF ids = {}
      THEN {<<>>}
      ELSE UNION { {<<m>> \o s : s \in AnyOrder(ids \ {m})} : m \in ids }

Max(S) == CHOOSE x \in S : \A y \in S : y <= x
Min(S) == CHOOSE x \in S : \A y \in S : x <= y

(***************************************************************************)
(* BoardService                                                            *)
(***************************************************************************)
BoardRow(b) ==
    [id |-> b, name |-> boards[b].name, description |-> boards[b].description,
     organizationId |-> boards[b].organizationId,
     createdBy |-> boards[b].createdBy, archivedAt |-> boards[b].archivedAt]

DefaultLists ==
    << [name |-> "To Do", position |-> 1],
       [name |-> "In Progress", position |-> 2],
       [name |-> "Done", position |-> 3] >>

\* db.insert(boards).values({name, description: description || null,
\* organizationId, createdBy}), of a board created with a name only;
\* archivedAt is null.
InsertBoard(tbl, id, o, u) ==
    tbl @@ (id :> [name |-> "Roadmap", description |-> NULL, organizationId |-> o,
                   createdBy |-> u, archivedAt |-> NULL])

\* db.insert(lists).values({name, position, boardId})
InsertList(tbl, id, b, name, position) ==
    tbl @@ (id :> [boardId |-> b, name |-> name, position |-> position])

\* Mutant of InsertDefaultLists: the loop stops one list short.
InsertDefaultListsShort(tbl, first, b) ==
    InsertList(
        InsertList(tbl, first, b, DefaultLists[1].name, DefaultLists[1].position),
        first + 1, b, DefaultLists[2].name, DefaultLists[2].position)

\* The loop over defaultLists: one insert per default list, in order.
InsertDefaultLists(tbl, first, b) ==
    InsertList(
        InsertList(
            InsertList(tbl, first, b, DefaultLists[1].name, DefaultLists[1].position),
            first + 1, b, DefaultLists[2].name, DefaultLists[2].position),
        first + 2, b, DefaultLists[3].name, DefaultLists[3].position)

BoardCreate(u, o) ==
    /\ Idle
    /\ IsMember(u, o) => nextId.board <= MaxBoards
    /\ IF IsMember(u, o)
         THEN LET b == nextId.board IN
              /\ boards' = InsertBoard(boards, b, o, u)
              /\ lists' = InsertDefaultLists(lists, nextId.list, b)
              /\ nextId' = [nextId EXCEPT !.board = b + 1, !.list = @ + Len(DefaultLists)]
              /\ last' = Response("BoardService.create", u, {<<"organization", o>>}, [organizationId |-> o], "ok",
                                  <<[id |-> b, name |-> "Roadmap", description |-> NULL,
                                     organizationId |-> o, createdBy |-> u,
                                     archivedAt |-> NULL]>>)
         ELSE /\ last' = Response("BoardService.create", u, {<<"organization", o>>}, [organizationId |-> o],
                                  "Access denied to this organization", NoRow)
              /\ UNCHANGED <<boards, lists, nextId>>
    /\ UNCHANGED <<users, userOrganizations, organizations, cards, cardComments, reqs, AGENT_USER_ID>>

\* Mutant of BoardsByOrganization: the membership check is left out.
BoardsByOrganizationUnchecked(o, u) ==
    {b \in DOMAIN boards : boards[b].organizationId = o /\ boards[b].archivedAt = NULL}

\* The rows getByOrganization returns: none without a membership row,
\* else the boards of o with archivedAt null.
BoardsByOrganization(o, u) ==
    IF ~IsMember(u, o)
      THEN {}
      ELSE {b \in DOMAIN boards : boards[b].organizationId = o /\ boards[b].archivedAt = NULL}

BoardGetByOrganization(o, u) ==
    /\ Idle
    /\ \E s \in AnyOrder(BoardsByOrganization(o, u)) :
         last' = Response("BoardService.getByOrganization", u, {<<"organization", o>>}, [organizationId |-> o],
                          "ok", [i \in DOMAIN s |-> BoardRow(s[i])])
    /\ UNCHANGED <<tables, nextId, reqs, AGENT_USER_ID>>

\* Mutant of BoardById: the isNull(archivedAt) condition is left out.
BoardByIdArchivedToo(b, u) ==
    IF BoardAccess(b, u) THEN <<BoardRow(b)>> ELSE NoRow

\* boards join user_organizations where id = b, userId = u, archivedAt is null
BoardById(b, u) ==
    IF BoardAccess(b, u) /\ boards[b].archivedAt = NULL THEN <<BoardRow(b)>> ELSE NoRow

BoardGetById(b, u) ==
    /\ Idle
    /\ last' = Response("BoardService.getById", u, {<<"board", b>>}, [boardId |-> b], "ok", BoardById(b, u))
    /\ UNCHANGED <<tables, nextId, reqs, AGENT_USER_ID>>

BoardArchive(b, u) ==
    /\ Idle
    /\ IF BoardById(b, u) = NoRow
         THEN /\ last' = Response("BoardService.archive", u, {<<"board", b>>}, [boardId |-> b],
                                  "Board not found or access denied", NoRow)
              /\ UNCHANGED boards
         ELSE /\ boards' = [boards EXCEPT ![b].archivedAt = "set"]
              /\ last' = Response("BoardService.archive", u, {<<"board", b>>}, [boardId |-> b], "ok", NoRow)
    /\ UNCHANGED <<users, userOrganizations, organizations, lists, cards, cardComments, nextId, reqs, AGENT_USER_ID>>

(***************************************************************************)
(* ListService                                                             *)
(***************************************************************************)
ListRow(l) ==
    [id |-> l, name |-> lists[l].name, position |-> lists[l].position,
     boardId |-> lists[l].boardId]

ListPosition == [l \in DOMAIN lists |-> lists[l].position]

\* The rows of getByBoard: lists join boards join user_organizations
\* where lists.boardId = b and userId = u.
ListsByBoard(b, u) ==
    {l \in DOMAIN lists : lists[l].boardId = b /\ BoardAccess(b, u)}

\* What getByBoard may return: the rows in order of position.
ListGetByBoardResults(b, u) ==
    { [i \in DOMAIN s |-> ListRow(s[i])] : s \in OrderedBy(ListsByBoard(b, u), ListPosition) }

ListGetByBoard(b, u) ==
    /\ Idle
    /\ \E r \in ListGetByBoardResults(b, u) :
         last' = Response("ListService.getByBoard", u, {<<"board", b>>}, [boardId |-> b], "ok", r)
    /\ UNCHANGED <<tables, nextId, reqs, AGENT_USER_ID>>

\* if (!position): an absent position and the position 0 are both falsy.
Falsy(pos) == pos = UNDEFINED \/ pos[1] = 0

\* select position from lists where boardId = b order by asc(position) limit 1,
\* then lastList[0].position + 1, or 1 when there is no row.
NextListPosition(b) ==
    LET ps == {lists[l].position : l \in {x \in DOMAIN lists : lists[x].boardId = b}} IN
    IF ps = {} THEN 1 ELSE Min(ps) + 1

ExtraLists == (nextId.list - 1) - Len(DefaultLists) * (nextId.board - 1)

ListCreate(b, u, name, pos) ==
    /\ Idle
    /\ BoardAccess(b, u) => ExtraLists < MaxExtraLists
    /\ IF ~BoardAccess(b, u)
         THEN /\ last' = Response("ListService.create", u, {<<"board", b>>}, [boardId |-> b, name |-> name, position |-> pos],
                                  "Access denied to this board", NoRow)
              /\ UNCHANGED <<lists, nextId>>
         ELSE LET position == IF Falsy(pos) THEN NextListPosition(b) ELSE pos[1]
                  l == nextId.list IN
              /\ lists' = InsertList(lists, l, b, name, position)
              /\ nextId' = [nextId EXCEPT !.list = l + 1]
              /\ last' = Response("ListService.create", u, {<<"board", b>>}, [boardId |-> b, name |-> name, position |-> pos], "ok",
                                  <<[id |-> l, name |-> name, position |-> position,
                                     boardId |-> b]>>)
    /\ UNCHANGED <<users, userOrganizations, organizations, boards, cards, cardComments, reqs, AGENT_USER_ID>>

\* Mutant of DeleteRow: the statement has lost the equality of its WHERE and
\* removes the later rows too.
DeleteRowsFrom(tbl, id) == [x \in {y \in DOMAIN tbl : y < id} |-> tbl[x]]

\* db.delete(lists).where(id = l): the cards of the list are left as they are.
DeleteRow(tbl, id) == [x \in DOMAIN tbl \ {id} |-> tbl[x]]

\* cards.listId references lists.id with no onDelete action, and the source
\* sets no foreign_keys pragma on its connection: whether the database
\* refuses to delete a list that cards still reference is the database
\* build's default, so both outcomes are possible.
ListDelete(l, u) ==
    /\ Idle
    /\ IF ~ListAccess(l, u)
         THEN /\ last' = Response("ListService.delete", u, {<<"list", l>>}, [listId |-> l],
                                  "List not found or access denied", NoRow)
              /\ UNCHANGED lists
         ELSE \/ /\ lists' = DeleteRow(lists, l)
                 /\ last' = Response("ListService.delete", u, {<<"list", l>>}, [listId |-> l], "ok", NoRow)
              \/ /\ \E c \in DOMAIN cards : cards[c].listId = l
                 /\ last' = Response("ListService.delete", u, {<<"list", l>>}, [listId |-> l],
                                     "FOREIGN KEY constraint failed", NoRow)
                 /\ UNCHANGED lists
    /\ UNCHANGED <<users, userOrganizations, organizations, boards, cards, cardComments, nextId, reqs, AGENT_USER_ID>>

\* boards join organizations where boards.id = b: no user takes part in the query.
BoardInfo(b) ==
    IF b \in DOMAIN boards /\ boards[b].organizationId \in DOMAIN organizations
      THEN <<[organizationSlug |-> organizations[boards[b].organizationId].slug]>>
      ELSE NoRow

\* u is the user on whose behalf the method is called; the method does not take it.
ListGetBoardInfo(b, u) ==
    /\ Idle
    /\ last' = Response("ListService.getBoardInfo", u, {<<"board", b>>}, [boardId |-> b], "ok", BoardInfo(b))
    /\ UNCHANGED <<tables, nextId, reqs, AGENT_USER_ID>>

(***************************************************************************)
(* The board and list services on an empty database, one call at a time.   *)
(***************************************************************************)
BoardIds == 1..MaxBoards
ListIds == 1..(Len(DefaultLists) * MaxBoards + MaxExtraLists)

Init ==
    /\ users = SeedUsers
    /\ userOrganizations = SeedMemberships
    /\ organizations = SeedOrganizations
    /\ boards = <<>>
    /\ lists = <<>>
    /\ cards = <<>>
    /\ cardComments = <<>>
    /\ nextId = [board |-> 1, list |-> 1, card |-> 1, comment |-> 1] @@ SeedIds
    /\ last = NoCall
    /\ reqs = <<>>
    /\ AGENT_USER_ID = NULL

Next ==
    \/ \E u \in Users, o \in Orgs : BoardCreate(u, o)
    \/ \E u \in Users, o \in Orgs : BoardGetByOrganization(o, u)
    \/ \E u \in Users, b \in BoardIds : BoardGetById(b, u)
    \/ \E u \in Users, b \in BoardIds : BoardArchive(b, u)
    \/ \E u \in Users, b \in BoardIds : ListGetByBoard(b, u)
    \/ \E u \in Users, b \in BoardIds, n \in ListNames, p \in PositionArgs : ListCreate(b, u, n, p)
    \/ \E u \in Users, b \in BoardIds : ListGetBoardInfo(b, u)
    \/ Return

Spec == Init /\ [][Next]_vars

(***************************************************************************)
(* CardService                                                             *)
(***************************************************************************)
CardRow(c) ==
    [id |-> c, listId |-> cards[c].listId, position |-> cards[c].position,
     title |-> cards[c].title, description |-> cards[c].description,
     dueDate |-> cards[c].dueDate]

CardPosition == [c \in DOMAIN cards |-> cards[c].position]

\* cards join lists join boards join user_organizations
\* where cards.listId = l and userId = u
CardsByList(l, u) ==
    {c \in DOMAIN cards : cards[c].listId = l /\ ListAccess(l, u)}

\* Mutant of CardGetByListResults: the query has no ORDER BY.
CardGetByListResultsUnordered(l, u) ==
    { [i \in DOMAIN s |-> CardRow(s[i])] : s \in AnyOrder(CardsByList(l, u)) }

CardGetByListResults(l, u) ==
    { [i \in DOMAIN s |-> CardRow(s[i])] : s \in OrderedBy(CardsByList(l, u), CardPosition) }

CardGetByList(l, u) ==
    /\ Idle
    /\ \E r \in CardGetByListResults(l, u) :
         last' = Response("CardService.getByList", u, {<<"list", l>>}, [listId |-> l], "ok", r)
    /\ UNCHANGED <<tables, nextId, reqs, AGENT_USER_ID>>

\* The second query of getByBoard: the cards whose list is in board b,
\* for a user with a membership row on the board's organization.
CardsByBoard(b, u) ==
    {c \in DOMAIN cards :
        /\ cards[c].listId \in DOMAIN lists
        /\ lists[cards[c].listId].boardId = b
        /\ BoardAccess(b, u)}

\* Mutant of CardGetByBoardResults: no key is made for a list before its
\* first card is pushed.
CardGetByBoardResultsNoEmpty(b, u) ==
    { [l \in {s[i].listId : i \in DOMAIN s} |->
          SelectSeq(s, LAMBDA row : row.listId = l)] :
      s \in { [i \in DOMAIN t |-> CardRow(t[i])] : t \in OrderedBy(CardsByBoard(b, u), CardPosition) } }

\* cardsByList: a key per list of the board, then each card pushed, in the
\* order of the query, onto the sequence of its list.
CardGetByBoardResults(b, u) ==
    { [l \in ListsByBoard(b, u) |->
          SelectSeq([i \in DOMAIN s |-> CardRow(s[i])], LAMBDA row : row.listId = l)] :
      s \in OrderedBy(CardsByBoard(b, u), CardPosition) }

CardGetByBoard(b, u) ==
    /\ Idle
    /\ \E r \in CardGetByBoardResults(b, u) :
         last' = Response("CardService.getByBoard", u, {<<"board", b>>}, [boardId |-> b], "ok", r)
    /\ UNCHANGED <<tables, nextId, reqs, AGENT_USER_ID>>

\* Mutant of CardById: the query requires the board not to be archived.
CardByIdLiveBoard(c, u) ==
    IF CardAccess(c, u) /\ boards[lists[cards[c].listId].boardId].archivedAt = NULL
      THEN <<CardRow(c)>>
      ELSE NoRow

CardById(c, u) == IF CardAccess(c, u) THEN <<CardRow(c)>> ELSE NoRow

CardGetById(c, u) ==
    /\ Idle
    /\ last' = Response("CardService.getById", u, {<<"card", c>>}, [cardId |-> c], "ok",
                        CardById(c, u))
    /\ UNCHANGED <<tables, nextId, reqs, AGENT_USER_ID>>

\* Mutant of NextCardPosition: the last card is taken in ascending order,
\* as ListService.create does.
NextCardPositionAsc(l) ==
    LET ps == {cards[c].position : c \in {x \in DOMAIN cards : cards[x].listId = l}} IN
    IF ps = {} THEN 1 ELSE Min(ps) + 1

\* select position from cards where listId = l order by desc(position) limit 1,
\* then lastCard[0].position + 1, or 1 when there is no row.
NextCardPosition(l) ==
    LET ps == {cards[c].position : c \in {x \in DOMAIN cards : cards[x].listId = l}} IN
    IF ps = {} THEN 1 ELSE Max(ps) + 1

\* x || null, for an optional argument x that is UNDEFINED or <<v>>: the
\* empty string is falsy as well.
OrNull(x) == IF x = UNDEFINED \/ x[1] = "" THEN NULL ELSE x[1]

\* db.insert(cards).values({title, description: description || null, listId,
\* position, dueDate: dueDate || null})
InsertCardValues(tbl, id, l, position, title, description, dueDate) ==
    tbl @@ (id :> [listId |-> l, position |-> position, title |-> title,
                   description |-> OrNull(description), dueDate |-> OrNull(dueDate)])

\* The insert of a card that is created with a title only.
CardTitle == "Fix bug"
InsertCard(tbl, id, l, position) ==
    InsertCardValues(tbl, id, l, position, CardTitle, UNDEFINED, UNDEFINED)

CardCreate(l, u, pos) ==
    /\ Idle
    /\ ListAccess(l, u) => nextId.card <= MaxCards
    /\ IF ~ListAccess(l, u)
         THEN /\ last' = Response("CardService.create", u, {<<"list", l>>},
                                  [listId |-> l, position |-> pos],
                                  "Access denied to this list", NoRow)
              /\ UNCHANGED <<cards, nextId>>
         ELSE LET position == IF Falsy(pos) THEN NextCardPosition(l) ELSE pos[1]
                  c == nextId.card IN
              /\ cards' = InsertCard(cards, c, l, position)
              /\ nextId' = [nextId EXCEPT !.card = c + 1]
              \* the card is read back with getById, by the same user
              /\ last' = Response("CardService.create", u, {<<"list", l>>},
                                  [listId |-> l, position |-> pos], "ok",
                                  <<[id |-> c, listId |-> l, position |-> position,
                                     title |-> CardTitle, description |-> NULL,
                                     dueDate |-> NULL]>>)
    /\ UNCHANGED <<users, userOrganizations, organizations, boards, lists, cardComments, reqs, AGENT_USER_ID>>

\* Mutant of MoveAllowed: only the card's own list is checked.
MoveAllowedCardOnly(c, u, l) == CardAccess(c, u)

\* cardAccess.length === 0 || listAccess.length === 0 throws.
MoveAllowed(c, u, l) == CardAccess(c, u) /\ ListAccess(l, u)

\* Mutant of MoveUpdate: the statement sets the list reference only.
MoveUpdateListOnly(tbl, c, l, position) ==
    IF c \in DOMAIN tbl THEN [tbl EXCEPT ![c].listId = l] ELSE tbl

\* db.update(cards).set({listId, position}).where(id = c): one statement;
\* it changes no row when the card is gone.
MoveUpdate(tbl, c, l, position) ==
    IF c \in DOMAIN tbl
      THEN [tbl EXCEPT ![c].listId = l, ![c].position = position]
      ELSE tbl

CardMove(c, u, l, position) ==
    /\ Idle
    /\ IF ~MoveAllowed(c, u, l)
         THEN /\ last' = Response("CardService.move", u, {<<"card", c>>, <<"list", l>>},
                                  [cardId |-> c, listId |-> l, position |-> position],
                                  "Card or list not found or access denied", NoRow)
              /\ UNCHANGED cards
         ELSE /\ cards' = MoveUpdate(cards, c, l, position)
              /\ last' = Response("CardService.move", u, {<<"card", c>>, <<"list", l>>},
                                  [cardId |-> c, listId |-> l, position |-> position],
                                  "ok", NoRow)
    /\ UNCHANGED <<users, userOrganizations, organizations, boards, lists, cardComments, nextId, reqs, AGENT_USER_ID>>

CardDelete(c, u) ==
    /\ Idle
    /\ IF ~CardAccess(c, u)
         THEN /\ last' = Response("CardService.delete", u, {<<"card", c>>}, [cardId |-> c],
                                  "Card not found or access denied", NoRow)
              /\ UNCHANGED cards
         ELSE \/ /\ cards' = DeleteRow(cards, c)
                 /\ last' = Response("CardService.delete", u, {<<"card", c>>}, [cardId |-> c],
                                     "ok", NoRow)
              \* cardComments.cardId references cards.id: as for ListDelete.
              \/ /\ \E m \in DOMAIN cardComments : cardComments[m].cardId = c
                 /\ last' = Response("CardService.delete", u, {<<"card", c>>}, [cardId |-> c],
                                     "FOREIGN KEY constraint failed", NoRow)
                 /\ UNCHANGED cards
    /\ UNCHANGED <<users, userOrganizations, organizations, boards, lists, cardComments, nextId, reqs, AGENT_USER_ID>>

\* lists join boards join organizations where lists.id = l: no user takes
\* part in the query.
ListInfo(l) ==
    IF /\ l \in DOMAIN lists
       /\ lists[l].boardId \in DOMAIN boards
       /\ boards[lists[l].boardId].organizationId \in DOMAIN organizations
      THEN <<[boardId |-> lists[l].boardId,
              organizationSlug |-> organizations[boards[lists[l].boardId].organizationId].slug]>>
      ELSE NoRow

\* u is the user on whose behalf the method is called; the method does not take it.
CardGetListInfo(l, u) ==
    /\ Idle
    /\ last' = Response("CardService.getListInfo", u, {<<"list", l>>}, [listId |-> l], "ok",
                        ListInfo(l))
    /\ UNCHANGED <<tables, nextId, reqs, AGENT_USER_ID>>

(***************************************************************************)
(* The card service, one call at a time, on a database that holds a board  *)
(* of o1 and a board of o2 with their default lists: the state after       *)
(* BoardService.create by u1 on o1 and by u3 on o2.  Cards are created in  *)
(* and moved to the first two lists of the first board, the first list of  *)
(* the second board, and a list that does not exist.                       *)
(***************************************************************************)
CardIds == 1..MaxCards
CardListArgs == {1, 2, Len(DefaultLists) + 1, 2 * Len(DefaultLists) + 1}
MovePositions == {1}

InitCards ==
    /\ users = SeedUsers
    /\ userOrganizations = SeedMemberships
    /\ organizations = SeedOrganizations
    /\ boards = InsertBoard(InsertBoard(<<>>, 1, "o1", "u1"), 2, "o2", "u3")
    /\ lists = InsertDefaultLists(InsertDefaultLists(<<>>, 1, 1), Len(DefaultLists) + 1, 2)
    /\ cards = <<>>
    /\ cardComments = <<>>
    /\ nextId = [board |-> 3, list |-> 2 * Len(DefaultLists) + 1, card |-> 1, comment |-> 1]
                  @@ SeedIds
    /\ last = NoCall
    /\ reqs = <<>>
    /\ AGENT_USER_ID = NULL

NextCards ==
    \/ \E u \in Users, l \in CardListArgs : CardGetByList(l, u)
    \/ \E u \in Users, b \in DOMAIN boards : CardGetByBoard(b, u)
    \/ \E u \in Users, c \in CardIds : CardGetById(c, u)
    \/ \E u \in Users, l \in CardListArgs, p \in PositionArgs : CardCreate(l, u, p)
    \/ \E u \in Users, c \in CardIds, l \in CardListArgs, p \in MovePositions : CardMove(c, u, l, p)
    \/ \E u \in Users, c \in CardIds : CardDelete(c, u)
    \/ \E u \in Users, l \in CardListArgs : CardGetListInfo(l, u)
    \/ Return

SpecCards == InitCards /\ [][NextCards]_vars

(***************************************************************************)
(* CommentService                                                          *)
(***************************************************************************)
Contents == {"first", "edited"}

CommentRow(k) ==
    [id |-> k, cardId |-> cardComments[k].cardId, userId |-> cardComments[k].userId,
     content |-> cardComments[k].content]

\* ORDER BY desc(createdAt): the later comment first.  The key of a comment
\* grows with its time of creation.
CommentAge == [k \in DOMAIN cardComments |-> nextId.comment - k]

\* card_comments join cards join lists join boards join user_organizations
\* where card_comments.cardId = c and userId = u
CommentsByCard(c, u) ==
    {k \in DOMAIN cardComments : cardComments[k].cardId = c /\ CardAccess(c, u)}

CommentGetByCardIdResults(c, u) ==
    { [i \in DOMAIN s |-> CommentRow(s[i])] : s \in OrderedBy(CommentsByCard(c, u), CommentAge) }

CommentGetByCardId(c, u) ==
    /\ Idle
    /\ \E r \in CommentGetByCardIdResults(c, u) :
         last' = Response("CommentService.getByCardId", u, {<<"card", c>>}, [cardId |-> c],
                          "ok", r)
    /\ UNCHANGED <<tables, nextId, reqs, AGENT_USER_ID>>

\* db.insert(cardComments).values({cardId, userId, content})
InsertComment(tbl, id, c, u, content) ==
    tbl @@ (id :> [cardId |-> c, userId |-> u, content |-> content])

CommentCreate(c, u, content) ==
    /\ Idle
    /\ CardAccess(c, u) => nextId.comment <= MaxComments
    /\ IF ~CardAccess(c, u)
         THEN /\ last' = Response("CommentService.create", u, {<<"card", c>>},
                                  [cardId |-> c, content |-> content],
                                  "Access denied to this card", NoRow)
              /\ UNCHANGED <<cardComments, nextId>>
         ELSE LET k == nextId.comment IN
              /\ cardComments' = InsertComment(cardComments, k, c, u, content)
              /\ nextId' = [nextId EXCEPT !.comment = k + 1]
              /\ last' = Response("CommentService.create", u, {<<"card", c>>},
                                  [cardId |-> c, content |-> content], "ok",
                                  <<[id |-> k, cardId |-> c, userId |-> u,
                                     content |-> content]>>)
    /\ UNCHANGED <<users, userOrganizations, organizations, boards, lists, cards, reqs, AGENT_USER_ID>>

\* Mutant of IsCommentOwner: an owner of the organization passes as well.
IsCommentOwnerOrOrgOwner(k, u) ==
    \/ cardComments[k].userId = u
    \/ \E m \in userOrganizations :
         m.userId = u /\ m.organizationId = OrgOfComment(k) /\ m.role = "owner"

\* comment.commentUserId !== requestUserId throws.
IsCommentOwner(k, u) == cardComments[k].userId = u

CommentUpdate(k, u, content) ==
    /\ Idle
    /\ IF ~CommentAccess(k, u)
         THEN /\ last' = Response("CommentService.update", u, {<<"comment", k>>},
                                  [commentId |-> k, content |-> content],
                                  "Comment not found or access denied", NoRow)
              /\ UNCHANGED cardComments
         ELSE IF ~IsCommentOwner(k, u)
         THEN /\ last' = Response("CommentService.update", u, {<<"comment", k>>},
                                  [commentId |-> k, content |-> content],
                                  "You can only edit your own comments", NoRow)
              /\ UNCHANGED cardComments
         ELSE /\ cardComments' = [cardComments EXCEPT ![k].content = content]
              /\ last' = Response("CommentService.update", u, {<<"comment", k>>},
                                  [commentId |-> k, content |-> content], "ok",
                                  <<[id |-> k, cardId |-> cardComments[k].cardId,
                                     userId |-> cardComments[k].userId,
                                     content |-> content]>>)
    /\ UNCHANGED <<users, userOrganizations, organizations, boards, lists, cards, nextId, reqs, AGENT_USER_ID>>

CommentDelete(k, u) ==
    /\ Idle
    /\ IF ~CommentAccess(k, u)
         THEN /\ last' = Response("CommentService.delete", u, {<<"comment", k>>},
                                  [commentId |-> k],
                                  "Comment not found or access denied", NoRow)
              /\ UNCHANGED cardComments
         ELSE IF ~IsCommentOwner(k, u)
         THEN /\ last' = Response("CommentService.delete", u, {<<"comment", k>>},
                                  [commentId |-> k],
                                  "You can only delete your own comments", NoRow)
              /\ UNCHANGED cardComments
         ELSE /\ cardComments' = DeleteRow(cardComments, k)
              /\ last' = Response("CommentService.delete", u, {<<"comment", k>>},
                                  [commentId |-> k], "ok", NoRow)
    /\ UNCHANGED <<users, userOrganizations, organizations, boards, lists, cards, nextId, reqs, AGENT_USER_ID>>

(***************************************************************************)
(* The comment service, one call at a time, on the database of InitCards   *)
(* with one card in the first list of each board: the state after          *)
(* CardService.create by u1 on list 1 and by u3 on the first list of the   *)
(* second board.                                                           *)
(***************************************************************************)
CommentIds == 1..MaxComments
SeedCards == InsertCard(InsertCard(<<>>, 1, 1, 1), 2, Len(DefaultLists) + 1, 1)
CommentCardArgs == DOMAIN SeedCards \cup {Len(SeedCards) + 1}

InitComments ==
    /\ users = SeedUsers
    /\ userOrganizations = SeedMemberships
    /\ organizations = SeedOrganizations
    /\ boards = InsertBoard(InsertBoard(<<>>, 1, "o1", "u1"), 2, "o2", "u3")
    /\ lists = InsertDefaultLists(InsertDefaultLists(<<>>, 1, 1), Len(DefaultLists) + 1, 2)
    /\ cards = SeedCards
    /\ cardComments = <<>>
    /\ nextId = [board |-> 3, list |-> 2 * Len(DefaultLists) + 1,
                 card |-> Len(SeedCards) + 1, comment |-> 1] @@ SeedIds
    /\ last = NoCall
    /\ reqs = <<>>
    /\ AGENT_USER_ID = NULL

NextComments ==
    \/ \E u \in Users, c \in CommentCardArgs : CommentGetByCardId(c, u)
    \/ \E u \in Users, c \in CommentCardArgs, t \in Contents : CommentCreate(c, u, t)
    \/ \E u \in Users, k \in CommentIds, t \in Contents : CommentUpdate(k, u, t)
    \/ \E u \in Users, k \in CommentIds : CommentDelete(k, u)
    \/ Return

SpecComments == InitComments /\ [][NextComments]_vars

(***************************************************************************)
(* Requests in flight.  A method runs one awaited database statement at a  *)
(* time; the code between two awaits runs with the statement before it.    *)
(* Statements of different requests interleave freely.  A request is a     *)
(* record: the call, the statement it is about to run (pc), the results    *)
(* of its earlier statements (local), and its response.                    *)
(***************************************************************************)
Request(op, actor, args, pc, local, outcome, data) ==
    [op |-> op, actor |-> actor, args |-> args, pc |-> pc, local |-> local,
     outcome |-> outcome, data |-> data]

At(r, op, pc) == r \in DOMAIN reqs /\ reqs[r].op = op /\ reqs[r].pc = pc

\* BoardService.create is called.
StartBoardCreate(u, o) ==
    /\ Len(reqs) < MaxRequests
    /\ reqs' = Append(reqs, Request("BoardService.create", u, [organizationId |-> o],
                                    "select_membership", [board |-> 0, inserted |-> 0],
                                    "pending", NoRow))
    /\ UNCHANGED <<tables, nextId, last, AGENT_USER_ID>>

\* The membership query, and the throw when it returns no row.
BoardCreateSelect(r) ==
    /\ At(r, "BoardService.create", "select_membership")
    /\ reqs' = IF IsMember(reqs[r].actor, reqs[r].args.organizationId)
                 THEN [reqs EXCEPT ![r].pc = "insert_board"]
                 ELSE [reqs EXCEPT ![r].pc = "done",
                                   ![r].outcome = "Access denied to this organization"]
    /\ UNCHANGED <<tables, nextId, last, AGENT_USER_ID>>

\* The insert of the board row.
BoardCreateInsertBoard(r) ==
    /\ At(r, "BoardService.create", "insert_board")
    /\ nextId.board <= MaxBoards
    /\ boards' = InsertBoard(boards, nextId.board, reqs[r].args.organizationId, reqs[r].actor)
    /\ nextId' = [nextId EXCEPT !.board = @ + 1]
    /\ reqs' = [reqs EXCEPT ![r].pc = "insert_list", ![r].local.board = nextId.board]
    /\ UNCHANGED <<users, userOrganizations, organizations, lists, cards, cardComments, last, AGENT_USER_ID>>

\* One turn of the loop over defaultLists; the return after its last turn.
BoardCreateInsertList(r) ==
    /\ At(r, "BoardService.create", "insert_list")
    /\ LET k == reqs[r].local.inserted + 1
           b == reqs[r].local.board IN
       /\ lists' = InsertList(lists, nextId.list, b, DefaultLists[k].name,
                              DefaultLists[k].position)
       /\ nextId' = [nextId EXCEPT !.list = @ + 1]
       /\ reqs' = IF k < Len(DefaultLists)
                    THEN [reqs EXCEPT ![r].local.inserted = k]
                    ELSE [reqs EXCEPT ![r].local.inserted = k, ![r].pc = "done",
                                      ![r].outcome = "ok", ![r].data = <<BoardRow(b)>>]
    /\ UNCHANGED <<users, userOrganizations, organizations, boards, cards, cardComments, last, AGENT_USER_ID>>

\* ListService.getByBoard, a single statement, run by another request.
ConcListGetByBoard(b, u) ==
    /\ Len(reqs) < MaxRequests
    /\ \E res \in ListGetByBoardResults(b, u) :
         reqs' = Append(reqs, Request("ListService.getByBoard", u, [boardId |-> b], "done",
                                      <<>>, "ok", res))
    /\ UNCHANGED <<tables, nextId, last, AGENT_USER_ID>>

NextBoardsConc ==
    \/ \E u \in Users, o \in Orgs : StartBoardCreate(u, o)
    \/ \E r \in 1..MaxRequests : BoardCreateSelect(r)
    \/ \E r \in 1..MaxRequests : BoardCreateInsertBoard(r)
    \/ \E r \in 1..MaxRequests : BoardCreateInsertList(r)
    \/ \E u \in Users, b \in BoardIds : ConcListGetByBoard(b, u)

SpecBoardsConc == Init /\ [][NextBoardsConc]_vars

\* CardService.move is called.
StartCardMove(c, u, l, position) ==
    /\ Len(reqs) < MaxRequests
    /\ reqs' = Append(reqs, Request("CardService.move", u,
                                    [cardId |-> c, listId |-> l, position |-> position],
                                    "select_card", [cardAccess |-> FALSE, listAccess |-> FALSE],
                                    "pending", NoRow))
    /\ UNCHANGED <<tables, nextId, last, AGENT_USER_ID>>

\* The first access query: on the card.
CardMoveSelectCard(r) ==
    /\ At(r, "CardService.move", "select_card")
    /\ reqs' = [reqs EXCEPT ![r].pc = "select_list",
                            ![r].local.cardAccess = CardAccess(reqs[r].args.cardId, reqs[r].actor)]
    /\ UNCHANGED <<tables, nextId, last, AGENT_USER_ID>>

\* Mutant of CardMoveSelectList: the throw is gone.
CardMoveSelectListNoThrow(r) ==
    /\ At(r, "CardService.move", "select_list")
    /\ reqs' = [reqs EXCEPT ![r].pc = "update",
                            ![r].local.listAccess = ListAccess(reqs[r].args.listId, reqs[r].actor)]
    /\ UNCHANGED <<tables, nextId, last, AGENT_USER_ID>>

\* The second access query: on the target list; then the throw when either
\* query returned no row.
CardMoveSelectList(r) ==
    /\ At(r, "CardService.move", "select_list")
    /\ LET listAccess == ListAccess(reqs[r].args.listId, reqs[r].actor) IN
       reqs' = IF reqs[r].local.cardAccess /\ listAccess
                 THEN [reqs EXCEPT ![r].pc = "update", ![r].local.listAccess = listAccess]
                 ELSE [reqs EXCEPT ![r].pc = "done", ![r].local.listAccess = listAccess,
                                   ![r].outcome = "Card or list not found or access denied"]
    /\ UNCHANGED <<tables, nextId, last, AGENT_USER_ID>>

\* The update of the card row, and the return.  When the target list has
\* been deleted since the access query, the database runs the update or
\* refuses it, as in ListDelete.
CardMoveUpdate(r) ==
    /\ At(r, "CardService.move", "update")
    /\ \/ /\ cards' = MoveUpdate(cards, reqs[r].args.cardId, reqs[r].args.listId,
                                 reqs[r].args.position)
          /\ reqs' = [reqs EXCEPT ![r].pc = "done", ![r].outcome = "ok"]
       \/ /\ reqs[r].args.listId \notin DOMAIN lists
          /\ reqs' = [reqs EXCEPT ![r].pc = "done", ![r].outcome = "FOREIGN KEY constraint failed"]
          /\ UNCHANGED cards
    /\ UNCHANGED <<users, userOrganizations, organizations, boards, lists, cardComments, nextId, last, AGENT_USER_ID>>

\* CardService.getById, a single statement, run by another request.
ConcCardGetById(c, u) ==
    /\ Len(reqs) < MaxRequests
    /\ reqs' = Append(reqs, Request("CardService.getById", u, [cardId |-> c], "done",
                                    <<>>, "ok", CardById(c, u)))
    /\ UNCHANGED <<tables, nextId, last, AGENT_USER_ID>>

\* Concurrent moves go to the second list of the first board and to the
\* first list of the second board, at MaxPosition.
ConcMoveListArgs == {2, Len(DefaultLists) + 1}

NextCardsConc ==
    \/ \E u \in Users, c \in DOMAIN SeedCards, l \in ConcMoveListArgs :
         StartCardMove(c, u, l, MaxPosition)
    \/ \E r \in 1..MaxRequests : CardMoveSelectCard(r)
    \/ \E r \in 1..MaxRequests : CardMoveSelectList(r)
    \/ \E r \in 1..MaxRequests : CardMoveUpdate(r)
    \/ \E u \in Users, c \in DOMAIN SeedCards : ConcCardGetById(c, u)

SpecCardsConc == InitComments /\ [][NextCardsConc]_vars

(***************************************************************************)
(* C1.  Tenant isolation: a call on a resource whose owning organization   *)
(* has no membership row for the actor returns no data derived from it     *)
(* and changes no stored row; this is stated of every service method, the  *)
(* helper reads getBoardInfo and getListInfo included.                     *)
(***************************************************************************)
C1_TenantIsolation ==
    [][ \A t \in last'.targets :
          (OwnerOrg(t) \in DOMAIN organizations /\ ~IsMember(last'.actor, OwnerOrg(t)))
            => (last'.data = <<>> /\ tables' = tables) ]_vars

(***************************************************************************)
(* C4.  BoardService.getById returns null, without an error, whenever the  *)
(* board does not exist, is archived, or belongs to an organization the    *)
(* actor has no membership on: the creator and the owners get null for an  *)
(* archived board like anybody else.                                       *)
(***************************************************************************)
C4_GetByIdNullWhenHidden ==
    last.op = "BoardService.getById" =>
        LET b == last.args.boardId IN
        (\/ b \notin DOMAIN boards
         \/ boards[b].archivedAt # NULL
         \/ ~IsMember(last.actor, boards[b].organizationId))
          => (last.outcome = "ok" /\ last.data = <<>>)

\* getById has returned null to the creator of an archived board, who is a
\* member of its organization.
C4_Witness ==
    /\ last.op = "BoardService.getById"
    /\ last.args.boardId \in DOMAIN boards
    /\ boards[last.args.boardId].archivedAt # NULL
    /\ boards[last.args.boardId].createdBy = last.actor
    /\ IsMember(last.actor, boards[last.args.boardId].organizationId)
    /\ last.data = <<>>

(***************************************************************************)
(* C5.  BoardService.getByOrganization never throws; for a user without a  *)
(* membership row on the organization it returns the empty sequence, for a *)
(* member exactly the boards of the organization that are not archived,    *)
(* each once.                                                              *)
(***************************************************************************)
C5_GetByOrganization ==
    last.op = "BoardService.getByOrganization" =>
        LET o == last.args.organizationId
            live == {b \in DOMAIN boards :
                       boards[b].organizationId = o /\ boards[b].archivedAt = NULL} IN
        /\ last.outcome = "ok"
        /\ ~IsMember(last.actor, o) => last.data = <<>>
        /\ IsMember(last.actor, o) =>
             /\ Len(last.data) = Cardinality(live)
             /\ {last.data[i].id : i \in DOMAIN last.data} = live
             /\ \A i \in DOMAIN last.data : last.data[i].organizationId = o

\* A non-member has asked for the boards of an organization that has a live board.
C5_Witness ==
    /\ last.op = "BoardService.getByOrganization"
    /\ ~IsMember(last.actor, last.args.organizationId)
    /\ \E b \in DOMAIN boards :
         boards[b].organizationId = last.args.organizationId /\ boards[b].archivedAt = NULL
    /\ last.data = <<>>

(***************************************************************************)
(* C6.  Right after a successful BoardService.create, ListService          *)
(* .getByBoard for the new board by its creator returns exactly three      *)
(* lists: "To Do" at position 1, "In Progress" at 2, "Done" at 3, in that  *)
(* order.                                                                  *)
(***************************************************************************)
C6_DefaultListsRoundTrip ==
    (last.op = "BoardService.create" /\ last.outcome = "ok") =>
        LET b == last.data[1].id
            read == ListGetByBoardResults(b, last.actor) IN
        /\ read # {}
        /\ \A r \in read :
             /\ Len(r) = 3
             /\ [i \in 1..3 |-> r[i].name] = <<"To Do", "In Progress", "Done">>
             /\ [i \in 1..3 |-> r[i].position] = <<1, 2, 3>>
             /\ \A i \in 1..3 : r[i].boardId = b

\* A member has created a second board: the lists read back are its own three.
C6_Witness ==
    /\ last.op = "BoardService.create"
    /\ last.outcome = "ok"
    /\ last.data[1].id > 1
    /\ Cardinality(DOMAIN lists) > 3

(***************************************************************************)
(* C9.  ListService.create without a position stores the new list at the   *)
(* greatest position among the other lists of the board plus one, and at   *)
(* position 1 in a board without lists.                                    *)
(***************************************************************************)
C9_ListDefaultPosition ==
    (last.op = "ListService.create" /\ last.outcome = "ok" /\ last.args.position = UNDEFINED) =>
        LET new == last.data[1].id
            others == {lists[l].position :
                         l \in {x \in DOMAIN lists \ {new} : lists[x].boardId = last.args.boardId}} IN
        lists[new].position = IF others = {} THEN 1 ELSE Max(others) + 1

(***************************************************************************)
(* C2.  CardService.move throws whenever the card does not exist, the      *)
(* actor has no membership on the organization that owns the card's        *)
(* current list, or none on the organization that owns the destination     *)
(* list (a destination that does not exist included); the cards table,     *)
(* and so the card's listId and position, is then as it was before the     *)
(* call.                                                                   *)
(***************************************************************************)
C2_MoveDeniedLeavesCard ==
    [][ ( /\ last'.op = "CardService.move"
          /\ \/ OrgOfCard(last'.args.cardId) = "none"
             \/ ~IsMember(last'.actor, OrgOfCard(last'.args.cardId))
             \/ OrgOfList(last'.args.listId) = "none"
             \/ ~IsMember(last'.actor, OrgOfList(last'.args.listId)) )
        => ( /\ last'.outcome = "Card or list not found or access denied"
             /\ cards' = cards ) ]_vars

\* A member of the card's organization has been refused a move to a list
\* of an organization he has no membership on; the card is where it was.
C2_Witness ==
    /\ last.op = "CardService.move"
    /\ last.outcome = "Card or list not found or access denied"
    /\ last.args.cardId \in DOMAIN cards
    /\ IsMember(last.actor, OrgOfCard(last.args.cardId))
    /\ last.args.listId \in DOMAIN lists
    /\ ~IsMember(last.actor, OrgOfList(last.args.listId))
    /\ cards[last.args.cardId].listId # last.args.listId

(***************************************************************************)
(* C3.  CommentService.update and CommentService.delete by a member of     *)
(* the owning organization who is not the comment's author, whatever his   *)
(* role, throw the not-author error and leave the comments table as it     *)
(* was; a user without a membership gets the other error, not found or     *)
(* access denied.                                                          *)
(***************************************************************************)
C3_OnlyAuthorEdits ==
    [][ (last'.op \in {"CommentService.update", "CommentService.delete"}
           /\ last'.args.commentId \in DOMAIN cardComments) =>
          LET k == last'.args.commentId IN
          /\ (IsMember(last'.actor, OrgOfComment(k)) /\ cardComments[k].userId # last'.actor)
               => /\ last'.outcome = IF last'.op = "CommentService.update"
                                       THEN "You can only edit your own comments"
                                       ELSE "You can only delete your own comments"
                  /\ cardComments' = cardComments
          /\ ~IsMember(last'.actor, OrgOfComment(k))
               => /\ last'.outcome = "Comment not found or access denied"
                  /\ cardComments' = cardComments ]_vars

\* The owner of the organization has been refused the edit of a comment
\* written by a user whose role is member.
C3_Witness ==
    /\ last.op = "CommentService.update"
    /\ last.outcome = "You can only edit your own comments"
    /\ last.args.commentId \in DOMAIN cardComments
    /\ cardComments[last.args.commentId].content # last.args.content
    /\ \E m \in userOrganizations :
         /\ m.userId = last.actor
         /\ m.organizationId = OrgOfComment(last.args.commentId)
         /\ m.role = "owner"
    /\ \E m \in userOrganizations :
         /\ m.userId = cardComments[last.args.commentId].userId
         /\ m.organizationId = OrgOfComment(last.args.commentId)
         /\ m.role = "member"

(***************************************************************************)
(* C8.  CardService.create without a position stores the new card at the   *)
(* greatest position among the other cards of the list plus one, and at    *)
(* position 1 in a list without cards.                                     *)
(***************************************************************************)
C8_CardDefaultPosition ==
    (last.op = "CardService.create" /\ last.outcome = "ok" /\ last.args.position = UNDEFINED) =>
        LET new == last.data[1].id
            others == {cards[c].position :
                         c \in {x \in DOMAIN cards \ {new} : cards[x].listId = last.args.listId}} IN
        /\ last.data[1].position = cards[new].position
        /\ cards[new].position = IF others = {} THEN 1 ELSE Max(others) + 1

\* A card has been created without a position in a list whose cards are at
\* 1 and MaxPosition: it is at MaxPosition + 1, not at the number of cards.
C8_Witness ==
    /\ last.op = "CardService.create"
    /\ last.outcome = "ok"
    /\ last.args.position = UNDEFINED
    /\ {cards[c].position :
          c \in {x \in DOMAIN cards \ {last.data[1].id} : cards[x].listId = last.args.listId}}
         = {1, MaxPosition}
    /\ cards[last.data[1].id].position = MaxPosition + 1

(***************************************************************************)
(* C7.  A board never exists with fewer than three lists: no request       *)
(* running beside BoardService.create, and no state left behind by it,     *)
(* sees the board without its default lists.                               *)
(***************************************************************************)
C7_BoardCreateAtomic ==
    \A b \in DOMAIN boards :
        Cardinality({l \in DOMAIN lists : lists[l].boardId = b}) >= 3

(***************************************************************************)
(* C10.  A reader never sees a card half moved: the listId and position    *)
(* that CardService.getById returns are those the card was created with,   *)
(* or the listId and the position of one completed CardService.move of     *)
(* that card.                                                              *)
(***************************************************************************)
C10_NoTornRead ==
    \A r \in DOMAIN reqs :
        (reqs[r].op = "CardService.getById" /\ reqs[r].data # <<>>) =>
            LET row == reqs[r].data[1] IN
            \/ /\ row.listId = SeedCards[row.id].listId
               /\ row.position = SeedCards[row.id].position
            \/ \E m \in DOMAIN reqs :
                 /\ reqs[m].op = "CardService.move"
                 /\ reqs[m].outcome = "ok"
                 /\ reqs[m].args.cardId = row.id
                 /\ row.listId = reqs[m].args.listId
                 /\ row.position = reqs[m].args.position

\* A reader has seen a card after a move that changed its list and its
\* position, while another move was between its access queries and its update.
C10_Witness ==
    \E r, m \in DOMAIN reqs :
        /\ reqs[r].op = "CardService.getById"
        /\ reqs[r].data # <<>>
        /\ reqs[r].data[1].listId # SeedCards[reqs[r].data[1].id].listId
        /\ reqs[r].data[1].position # SeedCards[reqs[r].data[1].id].position
        /\ reqs[m].op = "CardService.move"
        /\ reqs[m].pc = "update"
        /\ reqs[m].args.cardId = reqs[r].data[1].id

(***************************************************************************)
(* CardService.update and its two callers.  An optional field of a request *)
(* is UNDEFINED when it is absent and <<v>> when it is supplied; a         *)
(* supplied null is <<NULL>>.  A Date is written as its instant in ISO      *)
(* form; a string that is no date makes the Invalid Date.                  *)
(***************************************************************************)
InvalidDate == "Invalid Date"
IsoDates ==
    [s \in {"2026-01-01", "2026-02-02"} |->
        IF s = "2026-01-01" THEN "2026-01-01T00:00:00.000Z" ELSE "2026-02-02T00:00:00.000Z"]

\* new Date(val)
NewDate(val) == IF val \in DOMAIN IsoDates THEN IsoDates[val] ELSE InvalidDate

\* updateData: a field is set when data.field !== undefined.
UpdateData(row, data) ==
    [row EXCEPT !.title = IF data.title # UNDEFINED THEN data.title[1] ELSE @,
                !.description = IF data.description # UNDEFINED THEN data.description[1] ELSE @,
                !.dueDate = IF data.dueDate # UNDEFINED THEN data.dueDate[1] ELSE @]

\* The method called by `op` with the request `request`, which reaches
\* CardService.update as `data`: the access query, the update, the row returned.
CardUpdateCall(op, c, u, request, data) ==
    /\ Idle
    /\ IF ~CardAccess(c, u)
         THEN /\ last' = Response(op, u, {<<"card", c>>}, [cardId |-> c, data |-> request],
                                  "Card not found or access denied", NoRow)
              /\ UNCHANGED cards
         ELSE /\ cards' = [cards EXCEPT ![c] = UpdateData(@, data)]
              /\ last' = Response(op, u, {<<"card", c>>}, [cardId |-> c, data |-> request], "ok",
                                  <<[id |-> c] @@ UpdateData(cards[c], data)>>)
    /\ UNCHANGED <<users, userOrganizations, organizations, boards, lists, cardComments, nextId, reqs, AGENT_USER_ID>>

CardUpdate(c, u, data) == CardUpdateCall("CardService.update", c, u, data, data)

\* updateCardSchema.parse(body): title and description are passed on as they
\* are; the transform of dueDate runs on an absent value as well.
UpdateCardSchema(body) ==
    [title |-> body.title,
     description |-> body.description,
     dueDate |-> IF body.dueDate = UNDEFINED \/ body.dueDate[1] = NULL \/ body.dueDate[1] = ""
                   THEN <<NULL>>
                   ELSE IF NewDate(body.dueDate[1]) = InvalidDate  \* isNaN(date.getTime())
                          THEN <<NULL>>
                          ELSE <<NewDate(body.dueDate[1])>>]

\* PUT /cards/:cardId
PutCard(c, u, body) ==
    CardUpdateCall("PUT /cards/:cardId", c, u, body, UpdateCardSchema(body))

\* The data AgentTools.updateCard passes to CardService.update:
\* dueDate === null ? null : dueDate ? new Date(dueDate) : undefined
AgentUpdateData(data) ==
    [title |-> data.title,
     description |-> data.description,
     dueDate |-> IF data.dueDate = UNDEFINED THEN UNDEFINED
                 ELSE IF data.dueDate[1] = NULL THEN <<NULL>>
                 ELSE IF data.dueDate[1] # "" THEN <<NewDate(data.dueDate[1])>>
                 ELSE UNDEFINED]

\* AgentTools.updateCard; u is the user getAgentUserId returns.
AgentUpdateCard(c, u, data) ==
    CardUpdateCall("AgentTools.updateCard", c, u, data, AgentUpdateData(data))

(***************************************************************************)
(* The card updates, one call at a time, on the database of InitComments   *)
(* whose first card has a description and a due date.                      *)
(***************************************************************************)
\* The due date of a request body: absent, null, or a string.
BodyDueDates == {UNDEFINED, <<NULL>>, <<"">>, <<"2026-02-02">>, <<"soon">>}
\* The due date of a call of the service: absent, null, or a Date.
DataDueDates == {UNDEFINED, <<NULL>>, <<NewDate("2026-02-02")>>}
\* The due date of a call of the agent tool: absent, null, or an ISO string.
AgentDueDates == {UNDEFINED, <<NULL>>, <<"">>, <<"2026-02-02">>}

\* The requests: with and without a title, with and without a description
\* (the empty one), and a due date of `dueDates`.
UpdateRequests(dueDates) ==
    [title : {UNDEFINED, <<"Fix bug today">>}, description : {UNDEFINED, <<"">>},
     dueDate : dueDates]

InitCardUpdate ==
    /\ users = SeedUsers
    /\ userOrganizations = SeedMemberships
    /\ organizations = SeedOrganizations
    /\ boards = InsertBoard(InsertBoard(<<>>, 1, "o1", "u1"), 2, "o2", "u3")
    /\ lists = InsertDefaultLists(InsertDefaultLists(<<>>, 1, 1), Len(DefaultLists) + 1, 2)
    /\ cards = InsertCard(
                 InsertCardValues(<<>>, 1, 1, 1, CardTitle, <<"Steps to reproduce">>,
                                  <<NewDate("2026-01-01")>>),
                 2, Len(DefaultLists) + 1, 1)
    /\ cardComments = <<>>
    /\ nextId = [board |-> 3, list |-> 2 * Len(DefaultLists) + 1,
                 card |-> Len(SeedCards) + 1, comment |-> 1] @@ SeedIds
    /\ last = NoCall
    /\ reqs = <<>>
    /\ AGENT_USER_ID = NULL

NextCardUpdate ==
    \/ \E u \in Users, c \in CommentCardArgs, d \in UpdateRequests(DataDueDates) :
         CardUpdate(c, u, d)
    \/ \E u \in Users, c \in CommentCardArgs, d \in UpdateRequests(BodyDueDates) :
         PutCard(c, u, d)
    \/ \E u \in Users, c \in CommentCardArgs, d \in UpdateRequests(AgentDueDates) :
         AgentUpdateCard(c, u, d)
    \/ Return

SpecCardUpdate == InitCardUpdate /\ [][NextCardUpdate]_vars

(***************************************************************************)
(* C11.  A successful card update, through CardService.update, the PUT     *)
(* handler or the agent tool, leaves a field the request omits as it was   *)
(* stored, stores a title or description the request supplies, and clears  *)
(* the due date on a supplied null; an update whose request has no due     *)
(* date never changes the stored due date.                                 *)
(***************************************************************************)
C11_TriStateUpdate ==
    [][ (last'.op \in {"CardService.update", "PUT /cards/:cardId", "AgentTools.updateCard"}
           /\ last'.outcome = "ok") =>
          LET c == last'.args.cardId
              request == last'.args.data IN
          /\ cards'[c].title = IF request.title = UNDEFINED THEN cards[c].title
                               ELSE request.title[1]
          /\ cards'[c].description = IF request.description = UNDEFINED
                                       THEN cards[c].description
                                       ELSE request.description[1]
          /\ request.dueDate = UNDEFINED => cards'[c].dueDate = cards[c].dueDate
          /\ request.dueDate = <<NULL>> => cards'[c].dueDate = NULL ]_vars

(***************************************************************************)
(* The board as its members see it: the card service with the reads of     *)
(* both services, on the database of InitCards, where a list is added to   *)
(* the first board and cards are created in, moved between and deleted     *)
(* from the first two lists of that board and the added one.               *)
(***************************************************************************)
ViewListArgs == {1, 2, 2 * Len(DefaultLists) + 1}

NextBoardView ==
    \/ \E u \in Users, n \in ListNames, p \in PositionArgs : ListCreate(1, u, n, p)
    \/ \E u \in Users, b \in DOMAIN boards : ListGetByBoard(b, u)
    \/ \E u \in Users, l \in ViewListArgs, p \in PositionArgs : CardCreate(l, u, p)
    \/ \E u \in Users, c \in CardIds, l \in ViewListArgs, p \in MovePositions : CardMove(c, u, l, p)
    \/ \E u \in Users, c \in CardIds : CardDelete(c, u)
    \/ \E u \in Users, l \in ViewListArgs : CardGetByList(l, u)
    \/ \E u \in Users, b \in DOMAIN boards : CardGetByBoard(b, u)
    \/ Return

SpecBoardView == InitCards /\ [][NextBoardView]_vars

(***************************************************************************)
(* C12.  What CardService.getByList returns, each sequence of the mapping  *)
(* CardService.getByBoard returns, and what ListService.getByBoard         *)
(* returns, is in non-decreasing order of position.                        *)
(***************************************************************************)
C12_SortedReads ==
    LET Sorted(s) == \A i, j \in DOMAIN s : i < j => s[i].position <= s[j].position IN
    /\ last.op \in {"CardService.getByList", "ListService.getByBoard"} => Sorted(last.data)
    /\ last.op = "CardService.getByBoard" => \A l \in DOMAIN last.data : Sorted(last.data[l])

\* getByList has returned three cards, the one created last first.
C12_Witness ==
    /\ last.op = "CardService.getByList"
    /\ Len(last.data) = 3
    /\ last.data[1].id > last.data[2].id
    /\ last.data[1].position < last.data[3].position

(***************************************************************************)
(* C13.  For a member, the mapping CardService.getByBoard returns has      *)
(* exactly one key per list of the board, a list without cards mapped to   *)
(* the empty sequence, and every card whose list is in the board is once   *)
(* under the key of its list and under no other key.                       *)
(***************************************************************************)
C13_GroupedByList ==
    (last.op = "CardService.getByBoard" /\ BoardAccess(last.args.boardId, last.actor)) =>
        LET b == last.args.boardId
            ls == {l \in DOMAIN lists : lists[l].boardId = b} IN
        /\ DOMAIN last.data = ls
        /\ \A l \in ls :
             /\ \A i \in DOMAIN last.data[l] :
                  /\ last.data[l][i].id \in DOMAIN cards
                  /\ cards[last.data[l][i].id].listId = l
             /\ \A c \in DOMAIN cards :
                  cards[c].listId = l =>
                    Cardinality({i \in DOMAIN last.data[l] : last.data[l][i].id = c}) = 1

\* The only card of the three is under "In Progress", "To Do" and the added
\* list are mapped to the empty sequence.
C13_Witness ==
    /\ last.op = "CardService.getByBoard"
    /\ last.args.boardId = 1
    /\ DOMAIN last.data = {1, 2, 3, 2 * Len(DefaultLists) + 1}
    /\ last.data[1] = <<>>
    /\ last.data[2 * Len(DefaultLists) + 1] = <<>>
    /\ Len(last.data[2]) = 1
    /\ DOMAIN cards = {1}

(***************************************************************************)
(* AuthService.register and OrganizationService.create, one awaited        *)
(* statement at a time.  The columns users.email and organizations.slug    *)
(* are declared unique: an insert of a value that is in the table throws.  *)
(***************************************************************************)
\* Mutant of EmailExists: the query finds no user.
EmailExistsNever(email) == FALSE

\* select from users where email = ... limit 1
EmailExists(email) == \E u \in DOMAIN users : users[u].email = email

\* users.email: text('email').notNull().unique()
EmailUnique(email) == \A u \in DOMAIN users : users[u].email # email

\* select from organizations where slug = ... limit 1
SlugExists(slug) == \E o \in DOMAIN organizations : organizations[o].slug = slug

\* Mutant of SlugUnique: the column is not declared unique.
SlugNotUnique(slug) == TRUE

\* organizations.slug: text('slug').notNull().unique()
SlugUnique(slug) == \A o \in DOMAIN organizations : organizations[o].slug # slug

\* name.toLowerCase().replace(/\s+/g, '-')
Slugify(name) ==
    CASE name = "Ann Lee" -> "ann-lee"
      [] name = "ann  lee" -> "ann-lee"
      [] OTHER -> name

\* createId().slice(-4): four characters of a fresh identifier
Suffixes == {"a1b2", "c3d4"}

\* AuthService.register is called.
StartRegister(name, email) ==
    /\ Len(reqs) < MaxRequests
    /\ reqs' = Append(reqs, Request("AuthService.register", "none",
                                    [name |-> name, email |-> email, slug |-> "none"],
                                    "select_user", [user |-> "none", organization |-> "none"],
                                    "pending", NoRow))
    /\ UNCHANGED <<tables, nextId, last, AGENT_USER_ID>>

\* The query for a user of that email, and the throw when there is one.
RegisterSelectUser(r) ==
    /\ At(r, "AuthService.register", "select_user")
    /\ reqs' = IF EmailExists(reqs[r].args.email)
                 THEN [reqs EXCEPT ![r].pc = "done",
                                   ![r].outcome = "User already exists with this email"]
                 ELSE [reqs EXCEPT ![r].pc = "insert_user"]
    /\ UNCHANGED <<tables, nextId, last, AGENT_USER_ID>>

\* The insert of the user row.
RegisterInsertUser(r) ==
    /\ At(r, "AuthService.register", "insert_user")
    /\ IF ~EmailUnique(reqs[r].args.email)
         THEN /\ reqs' = [reqs EXCEPT ![r].pc = "done",
                                      ![r].outcome = "UNIQUE constraint failed: users.email"]
              /\ UNCHANGED <<users, nextId>>
         ELSE LET u == "u" \o ToString(nextId.user) IN
              /\ users' = users @@ (u :> [email |-> reqs[r].args.email, name |-> reqs[r].args.name])
              /\ nextId' = [nextId EXCEPT !.user = @ + 1]
              /\ reqs' = [reqs EXCEPT ![r].pc = "insert_organization", ![r].actor = u,
                                      ![r].local.user = u]
    /\ UNCHANGED <<userOrganizations, organizations, boards, lists, cards, cardComments, last, AGENT_USER_ID>>

\* The insert of the personal organization, under a slug made of the name
\* and the suffix.
RegisterInsertOrganization(r, suffix) ==
    /\ At(r, "AuthService.register", "insert_organization")
    /\ LET slug == Slugify(reqs[r].args.name) \o "-" \o suffix IN
       IF ~SlugUnique(slug)
         THEN /\ reqs' = [reqs EXCEPT ![r].pc = "done", ![r].args.slug = slug,
                                      ![r].outcome = "UNIQUE constraint failed: organizations.slug"]
              /\ UNCHANGED <<organizations, nextId>>
         ELSE LET o == "o" \o ToString(nextId.organization) IN
              /\ organizations' = organizations @@
                   (o :> [name |-> reqs[r].args.name \o "'s Organization", slug |-> slug,
                          createdBy |-> reqs[r].local.user])
              /\ nextId' = [nextId EXCEPT !.organization = @ + 1]
              /\ reqs' = [reqs EXCEPT ![r].pc = "insert_membership", ![r].args.slug = slug,
                                      ![r].local.organization = o]
    /\ UNCHANGED <<users, userOrganizations, boards, lists, cards, cardComments, last, AGENT_USER_ID>>

\* The insert of the owner's membership row, and the return.
RegisterInsertMembership(r) ==
    /\ At(r, "AuthService.register", "insert_membership")
    /\ userOrganizations' = userOrganizations \cup
         {[userId |-> reqs[r].local.user, organizationId |-> reqs[r].local.organization,
           role |-> "owner"]}
    /\ reqs' = [reqs EXCEPT ![r].pc = "done", ![r].outcome = "ok",
                            ![r].data = <<[id |-> reqs[r].local.user]>>]
    /\ UNCHANGED <<users, organizations, boards, lists, cards, cardComments, nextId, last, AGENT_USER_ID>>

\* OrganizationService.create is called.
StartOrgCreate(u, name, slug) ==
    /\ Len(reqs) < MaxRequests
    /\ reqs' = Append(reqs, Request("OrganizationService.create", u,
                                    [name |-> name, email |-> "none", slug |-> slug],
                                    "select_organization", [user |-> u, organization |-> "none"],
                                    "pending", NoRow))
    /\ UNCHANGED <<tables, nextId, last, AGENT_USER_ID>>

\* The query for an organization of that slug, and the throw when there is one.
OrgCreateSelect(r) ==
    /\ At(r, "OrganizationService.create", "select_organization")
    /\ reqs' = IF SlugExists(reqs[r].args.slug)
                 THEN [reqs EXCEPT ![r].pc = "done",
                                   ![r].outcome = "An organization with this name already exists"]
                 ELSE [reqs EXCEPT ![r].pc = "insert_organization"]
    /\ UNCHANGED <<tables, nextId, last, AGENT_USER_ID>>

\* The insert of the organization row.
OrgCreateInsertOrganization(r) ==
    /\ At(r, "OrganizationService.create", "insert_organization")
    /\ IF ~SlugUnique(reqs[r].args.slug)
         THEN /\ reqs' = [reqs EXCEPT ![r].pc = "done",
                                      ![r].outcome = "UNIQUE constraint failed: organizations.slug"]
              /\ UNCHANGED <<organizations, nextId>>
         ELSE LET o == "o" \o ToString(nextId.organization) IN
              /\ organizations' = organizations @@
                   (o :> [name |-> reqs[r].args.name, slug |-> reqs[r].args.slug,
                          createdBy |-> reqs[r].actor])
              /\ nextId' = [nextId EXCEPT !.organization = @ + 1]
              /\ reqs' = [reqs EXCEPT ![r].pc = "insert_membership", ![r].local.organization = o]
    /\ UNCHANGED <<users, userOrganizations, boards, lists, cards, cardComments, last, AGENT_USER_ID>>

\* The insert of the owner's membership row, and the return.
OrgCreateInsertMembership(r) ==
    /\ At(r, "OrganizationService.create", "insert_membership")
    /\ userOrganizations' = userOrganizations \cup
         {[userId |-> reqs[r].actor, organizationId |-> reqs[r].local.organization,
           role |-> "owner"]}
    /\ reqs' = [reqs EXCEPT ![r].pc = "done", ![r].outcome = "ok",
                            ![r].data = <<[id |-> reqs[r].local.organization]>>]
    /\ UNCHANGED <<users, organizations, boards, lists, cards, cardComments, nextId, last, AGENT_USER_ID>>

\* Mutant of CanUpdateOrganization: a member passes as well.
CanUpdateOrganizationMember(role) == role \in {"owner", "admin", "member"}

\* ['owner', 'admin'].includes(role)
CanUpdateOrganization(role) == role \in {"owner", "admin"}

\* OrganizationService.update: the membership query, the two throws, the
\* update of the name.
OrgUpdate(o, u, name) ==
    /\ Idle
    /\ LET userOrg == {m \in userOrganizations : m.organizationId = o /\ m.userId = u}
           call == [organizationId |-> o, name |-> name] IN
       IF userOrg = {}
         THEN /\ last' = Response("OrganizationService.update", u, {<<"organization", o>>}, call,
                                  "Organization not found or access denied", NoRow)
              /\ UNCHANGED organizations
         ELSE \E m \in userOrg :  \* limit(1)
              IF ~CanUpdateOrganization(m.role)
                THEN /\ last' = Response("OrganizationService.update", u, {<<"organization", o>>}, call,
                                         "Insufficient permissions to update organization", NoRow)
                     /\ UNCHANGED organizations
                ELSE /\ organizations' = [organizations EXCEPT ![o].name = name]
                     /\ last' = Response("OrganizationService.update", u, {<<"organization", o>>}, call,
                                         "ok", <<[id |-> o, name |-> name,
                                                  slug |-> organizations[o].slug,
                                                  userRole |-> m.role]>>)
    /\ UNCHANGED <<users, userOrganizations, boards, lists, cards, cardComments, nextId, reqs, AGENT_USER_ID>>

InitAccounts ==
    /\ users = SeedUsers
    /\ userOrganizations = SeedMemberships
    /\ organizations = SeedOrganizations
    /\ boards = <<>>
    /\ lists = <<>>
    /\ cards = <<>>
    /\ cardComments = <<>>
    /\ nextId = [board |-> 1, list |-> 1, card |-> 1, comment |-> 1] @@ SeedIds
    /\ last = NoCall
    /\ reqs = <<>>
    /\ AGENT_USER_ID = NULL

\* A new user registers under a name, with the email of u1 or a new one;
\* an organization is created under the slug of o1 or under a slug that
\* register may make as well.
NextAccountsConc ==
    \/ \E n \in {"Ann Lee"}, e \in {"u1@x.io", "ann@x.io"} : StartRegister(n, e)
    \/ \E r \in 1..MaxRequests : RegisterSelectUser(r)
    \/ \E r \in 1..MaxRequests : RegisterInsertUser(r)
    \/ \E r \in 1..MaxRequests, x \in Suffixes : RegisterInsertOrganization(r, x)
    \/ \E r \in 1..MaxRequests : RegisterInsertMembership(r)
    \/ \E u \in Users, s \in {"acme", "ann-lee-a1b2"} : StartOrgCreate(u, "Annex", s)
    \/ \E r \in 1..MaxRequests : OrgCreateSelect(r)
    \/ \E r \in 1..MaxRequests : OrgCreateInsertOrganization(r)
    \/ \E r \in 1..MaxRequests : OrgCreateInsertMembership(r)
    \/ \E o \in Orgs, u \in Users : OrgUpdate(o, u, "Acme Corp")
    \/ Return

SpecAccountsConc == InitAccounts /\ [][NextAccountsConc]_vars

(***************************************************************************)
(* C14.  Registration is all or nothing: once no register call is between  *)
(* its statements any more, whether it returned or failed, every user row  *)
(* that register inserted comes with a personal organization created by    *)
(* that user and an owner membership of the user on it, and a register     *)
(* call that returned success has left such a membership.                  *)
(***************************************************************************)
C14_RegistrationAllOrNothing ==
    (\A r \in DOMAIN reqs : reqs[r].op = "AuthService.register" => reqs[r].pc = "done") =>
        \A u \in DOMAIN users \ DOMAIN SeedUsers :
            \E o \in DOMAIN organizations :
                /\ organizations[o].createdBy = u
                /\ [userId |-> u, organizationId |-> o, role |-> "owner"] \in userOrganizations

(***************************************************************************)
(* C15.  In every state every organization has a membership row of role    *)
(* owner.                                                                  *)
(***************************************************************************)
C15_OwnerPerOrganization ==
    \A o \in DOMAIN organizations :
        \E m \in userOrganizations : m.organizationId = o /\ m.role = "owner"

(***************************************************************************)
(* C16.  No two organizations have the same slug, in any state and under   *)
(* any interleaving of the statements of OrganizationService.create and    *)
(* AuthService.register, and no step, a rename by OrganizationService      *)
(* .update included, changes the slug of an organization.                  *)
(***************************************************************************)
C16_SlugUniqueImmutable ==
    /\ [](\A o1, o2 \in DOMAIN organizations :
            organizations[o1].slug = organizations[o2].slug => o1 = o2)
    /\ [][\A o \in DOMAIN organizations :
            o \in DOMAIN organizations' /\ organizations'[o].slug = organizations[o].slug]_vars

\* Two creations under one slug have both passed the existence check: the
\* insert of one of them has been refused by the unique column.
C16_Witness ==
    \E r1, r2 \in DOMAIN reqs :
        /\ reqs[r1].args.slug = reqs[r2].args.slug
        /\ reqs[r1].pc \in {"insert_membership", "done"}
        /\ reqs[r1].local.organization # "none"
        /\ reqs[r2].outcome = "UNIQUE constraint failed: organizations.slug"

(***************************************************************************)
(* C17.  A register call whose email belongs to a user, and an             *)
(* organization creation whose slug belongs to an organization, fail at    *)
(* their next statement and leave the tables of users, organizations and   *)
(* memberships as they were; the existence check fails them with the       *)
(* conflict message of the method.                                         *)
(***************************************************************************)
C17_ConflictChangesNothing ==
    [][ \A r \in DOMAIN reqs :
          LET q == reqs[r]
              emailTaken == \E u \in DOMAIN users : users[u].email = q.args.email
              slugTaken == \E o \in DOMAIN organizations : organizations[o].slug = q.args.slug IN
          ( /\ reqs'[r] # q
            /\ \/ /\ q.op = "AuthService.register"
                  /\ q.pc \in {"select_user", "insert_user"}
                  /\ emailTaken
               \/ /\ q.op = "OrganizationService.create"
                  /\ q.pc \in {"select_organization", "insert_organization"}
                  /\ slugTaken )
          => /\ reqs'[r].pc = "done"
             /\ reqs'[r].outcome \notin {"ok", "pending"}
             /\ q.pc = "select_user" => reqs'[r].outcome = "User already exists with this email"
             /\ q.pc = "select_organization"
                  => reqs'[r].outcome = "An organization with this name already exists"
             /\ <<users, organizations, userOrganizations>>' =
                  <<users, organizations, userOrganizations>> ]_vars

\* A register call has failed on the email of u1 and a creation on the slug
\* of o1.
C17_Witness ==
    \E r1, r2 \in DOMAIN reqs :
        /\ reqs[r1].outcome = "User already exists with this email"
        /\ reqs[r1].args.email = users["u1"].email
        /\ reqs[r2].outcome = "An organization with this name already exists"
        /\ reqs[r2].args.slug = organizations["o1"].slug

(***************************************************************************)
(* The role gates: OrganizationService.update and the middleware           *)
(* requireOrganizationRole, one call at a time, on the seeded              *)
(* organizations, where u1 is a viewer of o2 as well.                      *)
(***************************************************************************)
RoleHierarchy == [viewer |-> 0, member |-> 1, admin |-> 2, owner |-> 3]

\* requireOrganizationRole(minRole) on a request of user u for /:orgSlug.
\* req.user.organizations is read from the tables when the request comes in.
RequireOrganizationRole(minRole, u, orgSlug) ==
    /\ Idle
    /\ LET userOrgs == {m \in userOrganizations :
                          /\ m.userId = u
                          /\ m.organizationId \in DOMAIN organizations
                          /\ organizations[m.organizationId].slug = orgSlug}
           call == [minRole |-> minRole, orgSlug |-> orgSlug] IN
       IF userOrgs = {}
         THEN last' = Response("requireOrganizationRole", u, {}, call,
                               "You do not have access to this organization", NoRow)
         ELSE \E userOrg \in userOrgs :  \* find
              IF RoleHierarchy[userOrg.role] < RoleHierarchy[minRole]
                THEN last' = Response("requireOrganizationRole", u, {}, call,
                                      "You need " \o minRole \o " permissions to access this resource",
                                      NoRow)
                ELSE last' = Response("requireOrganizationRole", u, {}, call, "next",
                                      <<[slug |-> orgSlug, role |-> userOrg.role]>>)
    /\ UNCHANGED <<tables, nextId, reqs, AGENT_USER_ID>>

InitOrgRoles ==
    /\ users = SeedUsers
    /\ userOrganizations = SeedMemberships \cup
         {[userId |-> "u1", organizationId |-> "o2", role |-> "viewer"]}
    /\ organizations = SeedOrganizations
    /\ boards = <<>>
    /\ lists = <<>>
    /\ cards = <<>>
    /\ cardComments = <<>>
    /\ nextId = [board |-> 1, list |-> 1, card |-> 1, comment |-> 1] @@ SeedIds
    /\ last = NoCall
    /\ reqs = <<>>
    /\ AGENT_USER_ID = NULL

NextOrgRoles ==
    \/ \E o \in Orgs, u \in Users, n \in {"Acme Corp", "Acme Inc"} : OrgUpdate(o, u, n)
    \/ \E r \in DOMAIN RoleHierarchy, u \in Users, s \in {"acme", "globex", "initech"} :
         RequireOrganizationRole(r, u, s)
    \/ Return

SpecOrgRoles == InitOrgRoles /\ [][NextOrgRoles]_vars

(***************************************************************************)
(* C18.  With the ranks owner 3, admin 2, member 1, viewer 0:              *)
(* OrganizationService.update renames the organization exactly when the    *)
(* actor's membership on it has a rank of at least admin, throws the       *)
(* insufficient-permissions error for a member or viewer and the           *)
(* access-denied error for a user without a membership, and leaves the     *)
(* organization as it was in both failures; requireOrganizationRole lets   *)
(* a request through exactly when the rank of the actor's role is at least *)
(* the rank of the required role.                                          *)
(***************************************************************************)
C18_RoleRankGate ==
    [][ LET rank == [viewer |-> 0, member |-> 1, admin |-> 2, owner |-> 3]
            call == last' IN
        /\ call.op = "OrganizationService.update" =>
             LET o == call.args.organizationId
                 roles == {m.role : m \in {x \in userOrganizations :
                                             x.userId = call.actor /\ x.organizationId = o}} IN
             /\ roles = {} =>
                  /\ call.outcome = "Organization not found or access denied"
                  /\ organizations' = organizations
             /\ (roles # {} /\ \A x \in roles : rank[x] < 2) =>
                  /\ call.outcome = "Insufficient permissions to update organization"
                  /\ organizations' = organizations
             /\ (roles # {} /\ \A x \in roles : rank[x] >= 2) =>
                  /\ call.outcome = "ok"
                  /\ organizations' = [organizations EXCEPT ![o].name = call.args.name]
        /\ call.op = "requireOrganizationRole" =>
             LET roles == {m.role : m \in {x \in userOrganizations :
                                             /\ x.userId = call.actor
                                             /\ organizations[x.organizationId].slug
                                                  = call.args.orgSlug}} IN
             call.outcome = "next" <=> \E x \in roles : rank[x] >= rank[call.args.minRole] ]_vars

\* A viewer has been refused the rename of the organization, which has been
\* renamed before by its admin.
C18_Witness ==
    /\ last.op = "OrganizationService.update"
    /\ last.outcome = "Insufficient permissions to update organization"
    /\ [userId |-> last.actor, organizationId |-> last.args.organizationId, role |-> "viewer"]
         \in userOrganizations
    /\ organizations[last.args.organizationId].name \notin
         {SeedOrganizations[last.args.organizationId].name, last.args.name}

(***************************************************************************)
(* Membership rows that come and go between calls.  No method of the       *)
(* services removes a membership row or adds one on an organization that   *)
(* exists; the two actions below stand for whatever does (an invitation,   *)
(* an administrator, a statement run on the database).  The calls are      *)
(* those of the four services on the database of InitComments with a       *)
(* comment of u2 on the first card.                                        *)
(***************************************************************************)
MembershipAdded(u, o, role) ==
    /\ Idle
    /\ ~IsMember(u, o)
    /\ userOrganizations' = userOrganizations \cup
         {[userId |-> u, organizationId |-> o, role |-> role]}
    /\ UNCHANGED <<users, organizations, boards, lists, cards, cardComments, nextId, last, reqs, AGENT_USER_ID>>

MembershipRemoved(u, o) ==
    /\ Idle
    /\ IsMember(u, o)
    /\ userOrganizations' = {m \in userOrganizations : ~(m.userId = u /\ m.organizationId = o)}
    /\ UNCHANGED <<users, organizations, boards, lists, cards, cardComments, nextId, last, reqs, AGENT_USER_ID>>

InitMembership ==
    /\ users = SeedUsers
    /\ userOrganizations = SeedMemberships
    /\ organizations = SeedOrganizations
    /\ boards = InsertBoard(InsertBoard(<<>>, 1, "o1", "u1"), 2, "o2", "u3")
    /\ lists = InsertDefaultLists(InsertDefaultLists(<<>>, 1, 1), Len(DefaultLists) + 1, 2)
    /\ cards = SeedCards
    /\ cardComments = InsertComment(<<>>, 1, 1, "u2", "first")
    /\ nextId = [board |-> 3, list |-> 2 * Len(DefaultLists) + 1,
                 card |-> Len(SeedCards) + 1, comment |-> 2] @@ SeedIds
    /\ last = NoCall
    /\ reqs = <<>>
    /\ AGENT_USER_ID = NULL

NextMembership ==
    \/ \E u \in Users, o \in Orgs : MembershipAdded(u, o, "member")
    \/ \E u \in Users, o \in Orgs : MembershipRemoved(u, o)
    \/ \E u \in Users, b \in DOMAIN boards : BoardGetById(b, u)
    \/ \E u \in Users, b \in DOMAIN boards : ListGetByBoard(b, u)
    \/ \E u \in Users, b \in DOMAIN boards : ListGetBoardInfo(b, u)
    \/ \E u \in Users, c \in DOMAIN SeedCards : CardGetById(c, u)
    \/ \E u \in Users, c \in DOMAIN SeedCards, l \in ConcMoveListArgs, p \in MovePositions :
         CardMove(c, u, l, p)
    \/ \E u \in Users, k \in {1}, t \in Contents : CommentUpdate(k, u, t)
    \/ Return

SpecMembership == InitMembership /\ [][NextMembership]_vars

(***************************************************************************)
(* C19.  Every call is authorized on the membership table as it is when    *)
(* the call is made: a call by a user whose membership on the organization *)
(* that owns its target has been removed returns no data and changes no    *)
(* row, whatever the user was granted before; a call by a user whose       *)
(* membership has been added reads the board and the card it asks for.     *)
(***************************************************************************)
C19_FreshAuthorization ==
    [][ \A t \in last'.targets :
          LET o == OwnerOrg(t)
              before == \E m \in SeedMemberships :
                           m.userId = last'.actor /\ m.organizationId = o IN
          o \in DOMAIN organizations =>
            /\ (before /\ ~IsMember(last'.actor, o))
                 => (last'.data = <<>> /\ tables' = tables)
            /\ (~before /\ IsMember(last'.actor, o)
                  /\ last'.op \in {"BoardService.getById", "CardService.getById"})
                 => last'.data # <<>> ]_vars

(***************************************************************************)
(* BoardService.update, and the edits of a board one call at a time on the *)
(* database of InitCards: its two boards and a board that does not exist   *)
(* are read, renamed and archived.                                         *)
(***************************************************************************)
BoardUpdate(b, u, name, description) ==
    /\ Idle
    /\ LET call == [boardId |-> b, name |-> name, description |-> description] IN
       IF BoardById(b, u) = NoRow
         THEN /\ last' = Response("BoardService.update", u, {<<"board", b>>}, call,
                                  "Board not found or access denied", NoRow)
              /\ UNCHANGED boards
         ELSE /\ boards' = [boards EXCEPT ![b].name = name,
                                          ![b].description = OrNull(description)]
              /\ last' = Response("BoardService.update", u, {<<"board", b>>}, call, "ok",
                                  <<[BoardRow(b) EXCEPT !.name = name,
                                                        !.description = OrNull(description)]>>)
    /\ UNCHANGED <<users, userOrganizations, organizations, lists, cards, cardComments, nextId, reqs, AGENT_USER_ID>>

NextBoardEdit ==
    \/ \E u \in Users, b \in 1..nextId.board : BoardGetById(b, u)
    \/ \E u \in Users, b \in 1..nextId.board, d \in {UNDEFINED, <<"Q3 plan">>} :
         BoardUpdate(b, u, "Roadmap 2", d)
    \/ \E u \in Users, b \in 1..nextId.board : BoardArchive(b, u)
    \/ Return

SpecBoardEdit == InitCards /\ [][NextBoardEdit]_vars

(***************************************************************************)
(* C20.  BoardService.update and BoardService.archive throw the            *)
(* not-found-or-denied error and leave the boards table as it was when     *)
(* the board does not exist, the actor has no membership on its            *)
(* organization, or the board is archived; and no call changes the row of  *)
(* a board whose archivedAt is set.                                        *)
(***************************************************************************)
C20_ArchivedBoardFrozen ==
    [][ /\ last'.op \in {"BoardService.update", "BoardService.archive"} =>
             LET b == last'.args.boardId IN
             (\/ b \notin DOMAIN boards
              \/ ~IsMember(last'.actor, boards[b].organizationId)
              \/ boards[b].archivedAt # NULL)
               => /\ last'.outcome = "Board not found or access denied"
                  /\ boards' = boards
        /\ \A b \in DOMAIN boards :
             boards[b].archivedAt # NULL => (b \in DOMAIN boards' /\ boards'[b] = boards[b]) ]_vars

\* The creator of a board has been refused its rename after the board was
\* archived.
C20_Witness ==
    /\ last.op = "BoardService.update"
    /\ last.outcome = "Board not found or access denied"
    /\ last.args.boardId \in DOMAIN boards
    /\ boards[last.args.boardId].createdBy = last.actor
    /\ IsMember(last.actor, boards[last.args.boardId].organizationId)
    /\ boards[last.args.boardId].archivedAt # NULL
    /\ boards[last.args.boardId].name # last.args.name

(***************************************************************************)
(* Archived boards: the boards of InitMembership, with their lists, cards  *)
(* and the comment, are archived, and the lists and cards are read by      *)
(* board, by list and by id, one call at a time.                           *)
(***************************************************************************)
NextArchive ==
    \/ \E u \in Users, b \in 1..nextId.board : BoardArchive(b, u)
    \/ \E u \in Users, b \in DOMAIN boards : ListGetByBoard(b, u)
    \/ \E u \in Users, b \in DOMAIN boards : CardGetByBoard(b, u)
    \/ \E u \in Users, l \in ConcMoveListArgs : CardGetByList(l, u)
    \/ \E u \in Users, c \in DOMAIN SeedCards : CardGetById(c, u)
    \/ Return

SpecArchive == InitMembership /\ [][NextArchive]_vars

(***************************************************************************)
(* C21.  BoardService.archive changes nothing but the archivedAt of the    *)
(* one board: the other boards and every list, card and comment row are    *)
(* as they were; and CardService.getById still returns a card of an        *)
(* archived board to a member of its organization.                         *)
(***************************************************************************)
C21_ArchiveFrame ==
    [][ /\ last'.op = "BoardService.archive" =>
             /\ <<users, userOrganizations, organizations, lists, cards, cardComments>>' =
                  <<users, userOrganizations, organizations, lists, cards, cardComments>>
             /\ DOMAIN boards' = DOMAIN boards
             /\ \A b \in DOMAIN boards :
                  /\ b # last'.args.boardId => boards'[b] = boards[b]
                  /\ [boards'[b] EXCEPT !.archivedAt = NULL] = [boards[b] EXCEPT !.archivedAt = NULL]
             /\ last'.outcome = "ok" => boards'[last'.args.boardId].archivedAt # NULL
        /\ last'.op = "CardService.getById" =>
             LET c == last'.args.cardId IN
             (c \in DOMAIN cards /\ IsMember(last'.actor, OrgOfCard(c)))
               => (last'.data # <<>> /\ last'.data[1].id = c) ]_vars

\* A member has read by id a card of a board that is archived.
C21_Witness ==
    /\ last.op = "CardService.getById"
    /\ last.data # <<>>
    /\ boards[lists[cards[last.args.cardId].listId].boardId].archivedAt # NULL

(***************************************************************************)
(* C22.  ListService.getByBoard and CardService.getByBoard on an archived  *)
(* board return no list and no card of the board, to any actor.            *)
(***************************************************************************)
C22_ArchivedNotListed ==
    ( /\ last.op \in {"ListService.getByBoard", "CardService.getByBoard"}
      /\ last.args.boardId \in DOMAIN boards
      /\ boards[last.args.boardId].archivedAt # NULL )
    => last.data = <<>>

(***************************************************************************)
(* Deletes: lists and cards of InitMembership are deleted while cards and  *)
(* comments refer to them, a list is added, and the cards and comments are *)
(* read, updated, moved and deleted, one call at a time.                   *)
(***************************************************************************)
NextDeletes ==
    \/ \E u \in Users, l \in ConcMoveListArgs \cup {1} : ListDelete(l, u)
    \/ \E u \in Users, c \in DOMAIN SeedCards : CardDelete(c, u)
    \/ \E u \in Users, n \in ListNames : ListCreate(1, u, n, UNDEFINED)
    \/ \E u \in Users, c \in DOMAIN SeedCards : CardGetById(c, u)
    \/ \E u \in Users, l \in ConcMoveListArgs \cup {1} : CardGetByList(l, u)
    \/ \E u \in Users, b \in DOMAIN boards : CardGetByBoard(b, u)
    \/ \E u \in Users, c \in DOMAIN SeedCards :
         CardUpdate(c, u, [title |-> <<"Fix bug today">>, description |-> UNDEFINED,
                           dueDate |-> UNDEFINED])
    \/ \E u \in Users, c \in DOMAIN SeedCards, l \in ConcMoveListArgs, p \in MovePositions :
         CardMove(c, u, l, p)
    \/ \E u \in Users, c \in DOMAIN SeedCards : CommentGetByCardId(c, u)
    \/ \E u \in Users, k \in {1} : CommentUpdate(k, u, "edited")
    \/ \E u \in Users, k \in {1} : CommentDelete(k, u)
    \/ Return

SpecDeletes == InitMembership /\ [][NextDeletes]_vars

C30_OrphansUnreachable ==
    [][ LET Orphan(c) == c \in DOMAIN cards /\ cards[c].listId \notin DOMAIN lists
            OrphanComment(k) ==
                k \in DOMAIN cardComments /\ cardComments[k].cardId \notin DOMAIN cards
            Ids(rows) == {rows[i].id : i \in DOMAIN rows}
        IN
        /\ \A c \in DOMAIN cards : Orphan(c) =>
             /\ c \in DOMAIN cards' /\ cards'[c] = cards[c]
             /\ cards[c].listId \notin DOMAIN lists'
             /\ (last'.op = "CardService.getById" /\ last'.args.cardId = c) => last'.data = <<>>
             /\ ( /\ last'.op \in {"CardService.update", "CardService.move", "CardService.delete"}
                  /\ last'.args.cardId = c ) => last'.outcome # "ok"
             /\ last'.op = "CardService.getByList" => c \notin Ids(last'.data)
             /\ last'.op = "CardService.getByBoard" =>
                  \A l \in DOMAIN last'.data : c \notin Ids(last'.data[l])
        /\ \A k \in DOMAIN cardComments : OrphanComment(k) =>
             /\ k \in DOMAIN cardComments' /\ cardComments'[k] = cardComments[k]
             /\ cardComments[k].cardId \notin DOMAIN cards'
             /\ last'.op = "CommentService.getByCardId" => k \notin Ids(last'.data)
             /\ ( /\ last'.op \in {"CommentService.update", "CommentService.delete"}
                  /\ last'.args.commentId = k ) => last'.outcome # "ok" ]_vars

\* The list of a card has been deleted, and a member of the organization
\* that owned the list has asked for the card by id.
C30_Witness ==
    /\ last.op = "CardService.getById"
    /\ last.args.cardId \in DOMAIN cards
    /\ cards[last.args.cardId].listId \notin DOMAIN lists
    /\ IsMember(last.actor, "o1")
    /\ cardComments # <<>>

(***************************************************************************)
(* C24.  ListService.getByBoard, CardService.getByList, getByBoard and     *)
(* getById, and CommentService.getByCardId, called by a user with no       *)
(* membership on the organization that owns the board, list or card they   *)
(* name, fail with an error: they do not return an empty result.           *)
(***************************************************************************)
C24_DeniedReadsFail ==
    ( /\ last.op \in {"ListService.getByBoard", "CardService.getByList", "CardService.getByBoard",
                      "CardService.getById", "CommentService.getByCardId"}
      /\ \E t \in last.targets : OwnerOrg(t) \in Orgs /\ ~IsMember(last.actor, OwnerOrg(t)) )
    => last.outcome # "ok"

(***************************************************************************)
(* Moves in flight while rows they were checked against go away: moves of  *)
(* the first card by u2 and u3 run statement by statement, the memberships *)
(* of u2 are removed and u3 deletes the target lists between their         *)
(* statements.                                                             *)
(***************************************************************************)
NextWritesConc ==
    \/ \E u \in {"u2", "u3"}, l \in ConcMoveListArgs : StartCardMove(1, u, l, MaxPosition)
    \/ \E r \in 1..MaxRequests : CardMoveSelectCard(r)
    \/ \E r \in 1..MaxRequests : CardMoveSelectList(r)
    \/ \E r \in 1..MaxRequests : CardMoveUpdate(r)
    \/ \E o \in Orgs : MembershipRemoved("u2", o)
    \/ \E l \in ConcMoveListArgs : ListDelete(l, "u3")
    \/ Return

SpecWritesConc == InitMembership /\ [][NextWritesConc]_vars

C27_WrittenListExists ==
    [][ \A c \in DOMAIN cards' :
          (c \notin DOMAIN cards \/ cards'[c].listId # cards[c].listId)
            => cards'[c].listId \in DOMAIN lists' ]_vars

(***************************************************************************)
(* The agent user.  Every method of AgentTools begins with                 *)
(* await getAgentUserId(); calls of different requests interleave at its   *)
(* await.                                                                  *)
(***************************************************************************)
\* getAgentUserId is called: if (AGENT_USER_ID) return AGENT_USER_ID, or
\* else the select is sent.
StartGetAgentUserId ==
    /\ Len(reqs) < MaxRequests
    /\ reqs' = Append(reqs,
         IF AGENT_USER_ID # NULL
           THEN Request("getAgentUserId", AGENT_USER_ID, <<>>, "done", <<>>, "ok", <<AGENT_USER_ID>>)
           ELSE Request("getAgentUserId", NULL, <<>>, "select", <<>>, "pending", NoRow))
    /\ UNCHANGED <<tables, nextId, last, AGENT_USER_ID>>

\* select id from users limit 1, with no ORDER BY: the row is one the
\* database chooses; then the throw when there is none, or the assignment
\* and the return.
GetAgentUserIdSelect(r) ==
    /\ At(r, "getAgentUserId", "select")
    /\ IF DOMAIN users = {}
         THEN /\ reqs' = [reqs EXCEPT ![r].pc = "done",
                            ![r].outcome = "No users found in database - create a user first"]
              /\ UNCHANGED AGENT_USER_ID
         ELSE \E firstUser \in DOMAIN users :
                /\ AGENT_USER_ID' = firstUser
                /\ reqs' = [reqs EXCEPT ![r].pc = "done", ![r].actor = firstUser,
                                        ![r].outcome = "ok", ![r].data = <<firstUser>>]
    /\ UNCHANGED <<tables, nextId, last>>

NextAgent ==
    \/ StartGetAgentUserId
    \/ \E r \in 1..MaxRequests : GetAgentUserIdSelect(r)

SpecAgent == InitComments /\ [][NextAgent]_vars

(***************************************************************************)
(* C26.  Once AGENT_USER_ID is not null it never changes, whatever calls   *)
(* of AgentTools are in flight, and every call that has got its user has   *)
(* got the same one.                                                       *)
(***************************************************************************)
C26_AgentUserAssignedOnce ==
    [][ /\ AGENT_USER_ID # NULL => AGENT_USER_ID' = AGENT_USER_ID
        /\ \A r, s \in DOMAIN reqs' :
             (reqs'[r].outcome = "ok" /\ reqs'[s].outcome = "ok") => reqs'[r].data = reqs'[s].data ]_vars

(***************************************************************************)
(* Explicit positions: cards are created in the first list and lists in    *)
(* the first board with no position, with position 0 and with position     *)
(* MaxPosition.                                                            *)
(***************************************************************************)
NextPositions ==
    \/ \E u \in Users, p \in PositionArgs \cup {<<0>>} : CardCreate(1, u, p)
    \/ \E u \in Users, n \in ListNames, p \in PositionArgs \cup {<<0>>} : ListCreate(1, u, n, p)
    \/ Return

SpecPositions == InitCards /\ [][NextPositions]_vars

(***************************************************************************)
(* C28.  CardService.create and ListService.create called with a position  *)
(* p >= 0 store the new row at position p and return it so, for p = 0 as   *)
(* for any other p.                                                        *)
(***************************************************************************)
C28_ExplicitPositionKept ==
    ( /\ last.op \in {"CardService.create", "ListService.create"}
      /\ last.outcome = "ok"
      /\ last.args.position # UNDEFINED )
    => /\ last.data[1].position = last.args.position[1]
       /\ last.op = "CardService.create" => cards[last.data[1].id].position = last.args.position[1]
       /\ last.op = "ListService.create" => lists[last.data[1].id].position = last.args.position[1]

(***************************************************************************)
(* C29.  CardService.move succeeds exactly when the actor has a membership *)
(* on the organization that owns the list the card is in and a membership  *)
(* on the organization that owns the target list, whether or not the two   *)
(* lists are in one board or one organization; and after a move that       *)
(* succeeded, getById returns the card to the mover.                       *)
(***************************************************************************)
C29_MoveIffMemberOfBoth ==
    [][ last'.op = "CardService.move" =>
          LET c == last'.args.cardId
              l == last'.args.listId
              u == last'.actor IN
          /\ last'.outcome = "ok" <=>
                (IsMember(u, OrgOfCard(c)) /\ IsMember(u, OrgOfList(l)))
          /\ last'.outcome = "ok" =>
                /\ c \in DOMAIN cards'
                /\ cards'[c].listId = l
                /\ <<lists, boards, userOrganizations>>' = <<lists, boards, userOrganizations>>
                /\ ListAccess(l, u) ]_vars

\* u2, a member of both organizations, has moved the first card, which was
\* in a list of o1, to a list of o2, where u1 cannot read it.
C29_Witness ==
    /\ last.op = "CardService.move"
    /\ last.outcome = "ok"
    /\ last.args.cardId = 1
    /\ OrgOfList(SeedCards[1].listId) = "o1"
    /\ OrgOfCard(1) = "o2"
    /\ CardById(1, last.actor) # NoRow
    /\ CardById(1, "u1") = NoRow

====
